---- MODULE Spec2Model ----
(***************************************************************************)
(* Configuration value resolution of the MiKTeX core session               *)
(* (Libraries/MiKTeX/Core/Session/config.cpp): GetSessionValue,            *)
(* GetConfigValue, SetConfigValue, Expand / ExpandValues and the layer      *)
(* cache configurationSettings.                                             *)
(*                                                                         *)
(* Strings are sequences of one-character strings, so that the scanners    *)
(* of the source can be followed character by character.                   *)
(***************************************************************************)
EXTENDS Integers, Sequences, FiniteSets, TLC

VARIABLES
  host,                   \* build and installation facts the session reads
  applicationNames,       \* SessionImpl::applicationNames, as the CsvList yields it
  env,                    \* the process environment: name -> value
  registry,               \* the Windows registry: scope -> Cfg-like store
  disk,                   \* configuration files: root index -> base name -> Cfg
  adminMode,              \* SessionImpl::adminMode
  initStartupConfig,      \* SessionImpl::initStartupConfig: isSharedSetup
  configurationSettings,  \* SessionImpl::configurationSettings: key -> Cfg
  valuesBeingExpanded,    \* SessionImpl::valuesBeingExpanded
  fileTypes,              \* SessionImpl::fileTypes: the registered file types
  filenameDatabase,       \* the roots whose file name database is loaded
  input,                  \* the arguments of the calls a behaviour makes
  calls,                  \* number of top-level calls made so far
  last                    \* the last top-level call: arguments, outcome, trace

vars == <<host, applicationNames, env, registry, disk, adminMode,
          initStartupConfig, configurationSettings, valuesBeingExpanded,
          fileTypes, filenameDatabase, input, calls, last>>

-----------------------------------------------------------------------------
(* Characters and strings                                                  *)

LowerLetters == <<"a","b","c","d","e","f","g","h","i","j","k","l","m",
                  "n","o","p","q","r","s","t","u","v","w","x","y","z">>

UpperLetters == <<"A","B","C","D","E","F","G","H","I","J","K","L","M",
                  "N","O","P","Q","R","S","T","U","V","W","X","Y","Z">>

Digits == {"0","1","2","3","4","5","6","7","8","9"}

\* the terminating zero of a C string
NUL == "NUL"

Range(f) == { f[x] : x \in DOMAIN f }

IsLowerAscii(ch) == ch \in Range(LowerLetters)

IsUpperAscii(ch) == ch \in Range(UpperLetters)

IsAlphaAscii(ch) == IsLowerAscii(ch) \/ IsUpperAscii(ch)

IsDecimalDigitAscii(ch) == ch \in Digits

IsAlnum(ch) == IsAlphaAscii(ch) \/ IsDecimalDigitAscii(ch)

IndexIn(seq, ch) == CHOOSE i \in DOMAIN seq : seq[i] = ch

ToUpperAscii(ch) ==
  IF IsLowerAscii(ch) THEN UpperLetters[IndexIn(LowerLetters, ch)] ELSE ch

ToLowerAscii(ch) ==
  IF IsUpperAscii(ch) THEN LowerLetters[IndexIn(UpperLetters, ch)] ELSE ch

MakeLower(s) == [i \in 1..Len(s) |-> ToLowerAscii(s[i])]

EqualsIgnoreCase(s, t) == MakeLower(s) = MakeLower(t)

\* s[i] of a C string: the terminator at and past the end
At(s, i) == IF i >= 1 /\ i <= Len(s) THEN s[i] ELSE NUL

\* the characters lo..hi of s
Slice(s, lo, hi) == [i \in 1..(hi - lo + 1) |-> s[lo + i - 1]]

\* all strings over alphabet of length at most n
StringsUpTo(alphabet, n) == UNION { [1..k -> alphabet] : k \in 0..n }

-----------------------------------------------------------------------------
(* AppendToEnvVarName: config.cpp 181-194                                  *)

RECURSIVE AppendFrom(_, _, _)
AppendFrom(name, part, i) ==
  IF i > Len(part) THEN name
  ELSE LET ch == part[i] IN
       IF IsAlphaAscii(ch) THEN AppendFrom(Append(name, ToUpperAscii(ch)), part, i + 1)
       ELSE IF IsDecimalDigitAscii(ch) THEN AppendFrom(Append(name, ch), part, i + 1)
       ELSE AppendFrom(name, part, i + 1)

\* the letters are appended as they are
AppendToEnvVarName_KeepsCase(name, part) ==
  name \o SelectSeq(part, LAMBDA ch : IsAlphaAscii(ch) \/ IsDecimalDigitAscii(ch))

AppendToEnvVarName(name, part) == AppendFrom(name, part, 1)

MIKTEX_ENV_PREFIX_ == <<"M","I","K","T","E","X","_">>

\* MIKTEX_<APPLICATIONNAME>_<SECTIONNAME>_<VALUENAME>
AppEnvVarName(app, section, valueName) ==
  AppendToEnvVarName(
    Append(AppendToEnvVarName(
             Append(AppendToEnvVarName(MIKTEX_ENV_PREFIX_, app), "_"),
             section), "_"),
    valueName)

\* MIKTEX_<SECTIONNAME>_<VALUENAME>
SectionEnvVarName(section, valueName) ==
  AppendToEnvVarName(Append(AppendToEnvVarName(MIKTEX_ENV_PREFIX_, section), "_"),
                     valueName)

\* MIKTEX_<VALUENAME>
PlainEnvVarName(valueName) == AppendToEnvVarName(MIKTEX_ENV_PREFIX_, valueName)

-----------------------------------------------------------------------------
(* Collaborators: the Cfg store, the environment, the registry             *)

\* a Cfg is a function from keys to values; keys compare case-insensitively
CfgKey(section, valueName) == <<MakeLower(section), MakeLower(valueName)>>

EmptyCfg == [k \in {} |-> <<>>]

CfgHas(cfg, section, valueName) == CfgKey(section, valueName) \in DOMAIN cfg

CfgGet(cfg, section, valueName) == cfg[CfgKey(section, valueName)]

\* Cfg::Read into a store that may hold values already: the file's values win
CfgRead(cfg, file) ==
  [k \in DOMAIN cfg \cup DOMAIN file |-> IF k \in DOMAIN file THEN file[k] ELSE cfg[k]]

CfgClearValue(cfg, section, valueName) ==
  [k \in DOMAIN cfg \ {CfgKey(section, valueName)} |-> cfg[k]]

CfgPutValue(cfg, section, valueName, value) ==
  [k \in DOMAIN cfg \cup {CfgKey(section, valueName)} |->
     IF k = CfgKey(section, valueName) THEN value ELSE cfg[k]]

\* a value the session may or may not be able to compute (GetPsFontDirs, ...)
NoDirs == [have |-> FALSE, value |-> <<>>]

Dirs(v) == [have |-> TRUE, value |-> v]

\* Utils::GetEnvironmentString
EnvHas(e, name) == name \in DOMAIN e

\* winRegistry::TryGetValue(ConfigurationScope::None, ...): user scope first
\* (not in administrator mode), then common scope
RegistryHas(reg, admin, section, valueName) ==
  \/ ~admin /\ CfgHas(reg.user, section, valueName)
  \/ CfgHas(reg.common, section, valueName)

RegistryGet(reg, admin, section, valueName) ==
  IF ~admin /\ CfgHas(reg.user, section, valueName)
  THEN CfgGet(reg.user, section, valueName)
  ELSE CfgGet(reg.common, section, valueName)

\* winRegistry::SetValue(scope, ...)
RegistrySetValue(reg, admin, section, valueName, value) ==
  IF admin
  THEN [reg EXCEPT !.common = CfgPutValue(reg.common, section, valueName, value)]
  ELSE [reg EXCEPT !.user = CfgPutValue(reg.user, section, valueName, value)]

-----------------------------------------------------------------------------
(* Names the session knows (miktex/Configuration/ConfigNames)              *)

CFG_MACRO_NAME_ENGINE == <<"e","n","g","i","n","e">>

CFG_MACRO_NAME_BINDIR == <<"b","i","n","d","i","r">>

CFG_MACRO_NAME_PROGNAME == <<"p","r","o","g","n","a","m","e">>

CFG_MACRO_NAME_WINDIR == <<"w","i","n","d","i","r">>

CFG_MACRO_NAME_LOCALFONTDIRS ==
  <<"l","o","c","a","l","f","o","n","t","d","i","r","s">>

CFG_MACRO_NAME_PSFONTDIRS == <<"p","s","f","o","n","t","d","i","r","s">>

CFG_MACRO_NAME_TTFDIRS == <<"t","t","f","d","i","r","s">>

CFG_MACRO_NAME_OTFDIRS == <<"o","t","f","d","i","r","s">>

MIKTEX_CONFIG_SECTION_NONE == <<>>

MIKTEX_CONFIG_SECTION_CORE == <<"C","o","r","e">>

MIKTEX_CONFIG_VALUE_NO_REGISTRY == <<"N","o","R","e","g","i","s","t","r","y">>

MIKTEX_CONFIG_VALUE_ALLOWEDSHELLCOMMANDS ==
  <<"A","l","l","o","w","e","d","S","h","e","l","l","C","o","m","m","a","n","d","s","[","]">>

\* base name of MIKTEX_INI_FILE
MIKTEX_INI_BASE == <<"m","i","k","t","e","x">>

\* the key of the factory settings in configurationSettings
FactorySettingsKey ==
  <<"<","\\","m","i","k","t","e","x","|","*","|","c","o","n","f","i","g","/",">">>

\* a HasNamedValues* callback: nullptr, or the values its TryGetValue knows
NoCallback == [present |-> FALSE, values |-> <<>>]

Callback(values) == [present |-> TRUE, values |-> values]

-----------------------------------------------------------------------------
(* The session context a call works on: the layer cache, the set of values *)
(* being expanded, the registry as the call has left it so far, and a      *)
(* trace of the sources the call consulted.                                *)

Ctx(cs, vbe, reg, log) ==
  [cs |-> cs, vbe |-> vbe, reg |-> reg, log |-> log, failed |-> FALSE,
   scan |-> <<>>]

Logged(ctx, entry) == [ctx EXCEPT !.log = Append(@, entry)]

\* the course of the scanner of ExpandValues: <<"enter", n>> when a call of
\* ExpandValues begins on a text of n characters, <<"at", i>> when an
\* iteration of its loop begins with lpsz at the i-th character, <<"leave">>
\* when the call returns
Scanned(ctx, entry) == [ctx EXCEPT !.scan = Append(@, entry)]

\* the running result of a resolution
Acc(have, value, ctx) == [have |-> have, value |-> value, ctx |-> ctx]

\* the outcome of a call that may end in MIKTEX_UNEXPECTED / a fatal error
Returned(have, value, ctx) ==
  [thrown |-> FALSE, have |-> have, value |-> value, ctx |-> ctx]

Thrown(ctx) == [thrown |-> TRUE, have |-> FALSE, value |-> <<>>, ctx |-> ctx]

-----------------------------------------------------------------------------
(* ReadAllConfigFiles: config.cpp 161-179                                  *)

\* FindFile(..., { FindFileOption::All }, configFiles): the roots, in search
\* order, that hold <baseName>.ini
FindFile(baseName) ==
  LET found == { r \in DOMAIN disk : baseName \in DOMAIN disk[r] }
  IN  [found |-> found # {}, roots |-> found]

\* IsManagedRoot(r) in the current mode
IsManagedRoot(r) == adminMode \in host.roots[r].managedIn

\* TryDeriveTEXMFRoot(file) != INVALID_ROOT_INDEX
RootDerivable(r) == host.roots[r].derivable

\* a file is skipped whenever its root is not managed
SkipConfigFile_Unmanaged(r) == ~IsManagedRoot(r)

\* the test of line 173
SkipConfigFile(r) == RootDerivable(r) /\ ~IsManagedRoot(r)

\* cfg.Read(file) ends in a fatal error: the file cannot be parsed
Unreadable(r, baseName) == <<r, baseName>> \in host.unreadable

\* the reverse iteration of lines 170-178, from root r downwards; a file
\* that cannot be read ends the iteration with what has been merged so far
RECURSIVE ReadFilesDownFrom(_, _, _, _)
ReadFilesDownFrom(baseName, found, r, cfg) ==
  IF r < 1 THEN cfg
  ELSE IF r \notin found \/ SkipConfigFile(r)
       THEN ReadFilesDownFrom(baseName, found, r - 1, cfg)
       ELSE IF Unreadable(r, baseName) THEN cfg
       ELSE ReadFilesDownFrom(baseName, found, r - 1, CfgRead(cfg, disk[r][baseName]))

\* the iteration in the order of the search: from root r upwards
RECURSIVE ReadFilesUpFrom(_, _, _, _)
ReadFilesUpFrom(baseName, found, r, cfg) ==
  IF r > Len(host.roots) THEN cfg
  ELSE IF r \notin found \/ SkipConfigFile(r)
       THEN ReadFilesUpFrom(baseName, found, r + 1, cfg)
       ELSE IF Unreadable(r, baseName) THEN cfg
       ELSE ReadFilesUpFrom(baseName, found, r + 1, CfgRead(cfg, disk[r][baseName]))

\* the files are read in the order in which they were found
ReadAllConfigFiles_Forward(baseName, cfg) ==
  IF ~FindFile(baseName).found THEN cfg
  ELSE ReadFilesUpFrom(baseName, FindFile(baseName).roots, 1, cfg)

ReadAllConfigFiles(baseName, cfg) ==
  LET ff == FindFile(baseName)
  IN  IF ~ff.found THEN cfg
      ELSE ReadFilesDownFrom(baseName, ff.roots, Len(host.roots), cfg)

-----------------------------------------------------------------------------
(* GetSessionValue: config.cpp 196-418, and ExpandValues: config.cpp 727-807 *)
(*                                                                         *)
(* Every source is a step from the running result to the running result:   *)
(* a step does nothing once a value has been found (!haveValue, break).    *)

\* ReadAllConfigFiles(baseName, cfg) leaves through an exception of line 177
ReadAborts(baseName) ==
  \E r \in DOMAIN disk :
    baseName \in DOMAIN disk[r] /\ ~SkipConfigFile(r) /\ Unreadable(r, baseName)

RECURSIVE GetSessionValue(_, _, _, _)
RECURSIVE ExpandValuesFrom(_, _, _, _, _)
RECURSIVE AppLoop(_, _, _, _)

\* configurationSettings.insert(value_type(key, cfg))
CsInsert(cs, key, cfg) ==
  [k \in DOMAIN cs \cup {key} |-> IF k = key THEN cfg ELSE cs[k]]

\* the files are read on every use
LayerFor_AlwaysReads(lookupKeyName, ctx) ==
  Logged([ctx EXCEPT !.cs = CsInsert(@, lookupKeyName,
                                     ReadAllConfigFiles(lookupKeyName, EmptyCfg)),
                      !.failed = ReadAborts(lookupKeyName)],
         <<"read", lookupKeyName>>)

\* lines 214-227: the layer of an application tag, read on first use; the
\* entry is inserted (224) before the files are read into it (226), so it
\* stays in the cache when the reading aborts
LayerFor(lookupKeyName, ctx) ==
  IF lookupKeyName \in DOMAIN ctx.cs THEN ctx
  ELSE Logged([ctx EXCEPT !.cs = CsInsert(@, lookupKeyName,
                                         ReadAllConfigFiles(lookupKeyName, EmptyCfg)),
                          !.failed = ReadAborts(lookupKeyName)],
              <<"read", lookupKeyName>>)

\* line 230: section name defaults to application name
DefaultSectionName(sectionName, app) ==
  IF sectionName = <<>> THEN app ELSE sectionName

\* the engine name is not computed
SpecialValues1_Skipped(valueName, acc) == acc

\* lines 200-205: special values, part 1
SpecialValues1(valueName, acc) ==
  IF ~acc.have /\ EqualsIgnoreCase(valueName, CFG_MACRO_NAME_ENGINE)
  THEN Acc(TRUE, host.engineName, Logged(acc.ctx, <<"special", CFG_MACRO_NAME_ENGINE>>))
  ELSE acc

\* Utils::GetEnvironmentString(envVarName, value)
TryEnv(envVarName, acc) ==
  IF EnvHas(env, envVarName)
  THEN Acc(TRUE, env[envVarName], Logged(acc.ctx, <<"env", envVarName>>))
  ELSE Acc(FALSE, acc.value, Logged(acc.ctx, <<"env", envVarName>>))

\* the environment variable of the application tag is not read
TryAppEnv_Never(app, section, valueName, acc) == acc

\* lines 232-249: MIKTEX_<APPLICATIONNAME>_<SECTIONNAME>_<VALUENAME>
TryAppEnv(app, section, valueName, acc) ==
  IF acc.have THEN acc
  ELSE TryEnv(AppEnvVarName(app, section, valueName), acc)

\* winRegistry::TryGetValue(ConfigurationScope::None, section, valueName, value)
TryRegistryValue(section, valueName, acc) ==
  IF RegistryHas(acc.ctx.reg, adminMode, section, valueName)
  THEN Acc(TRUE, RegistryGet(acc.ctx.reg, adminMode, section, valueName),
           Logged(acc.ctx, <<"registry", section, valueName>>))
  ELSE Acc(FALSE, acc.value, Logged(acc.ctx, <<"registry", section, valueName>>))

\* lines 251-258: the registry, on Windows
TryAppRegistry(section, valueName, acc) ==
  IF ~acc.have /\ host.isWindows /\ ~host.portable
  THEN TryRegistryValue(section, valueName, acc)
  ELSE acc

\* cfg->TryGetValueAsString(section, valueName, value) on a cached layer
TryCfg(key, section, valueName, acc) ==
  IF CfgHas(acc.ctx.cs[key], section, valueName)
  THEN Acc(TRUE, CfgGet(acc.ctx.cs[key], section, valueName),
           Logged(acc.ctx, <<"cfg", key, section, valueName>>))
  ELSE Acc(FALSE, acc.value, Logged(acc.ctx, <<"cfg", key, section, valueName>>))

\* lines 260-265: the configuration files of the application tag
TryAppCfg(lookupKeyName, section, valueName, acc) ==
  IF acc.have THEN acc ELSE TryCfg(lookupKeyName, section, valueName, acc)

\* the layer of the application tag is not asked
AppSources_NoLayer(sectionName, valueName, app, ctx) ==
  IF ctx.failed THEN Acc(FALSE, <<>>, ctx)
  ELSE TryAppRegistry(DefaultSectionName(sectionName, app), valueName,
         TryAppEnv(app, DefaultSectionName(sectionName, app), valueName,
           Acc(FALSE, <<>>, ctx)))

\* lines 229-265: the sources of one application tag, its layer being ctx.cs
AppSources(sectionName, valueName, app, ctx) ==
  IF ctx.failed THEN Acc(FALSE, <<>>, ctx)
  ELSE TryAppCfg(MakeLower(app), DefaultSectionName(sectionName, app), valueName,
         TryAppRegistry(DefaultSectionName(sectionName, app), valueName,
           TryAppEnv(app, DefaultSectionName(sectionName, app), valueName,
             Acc(FALSE, <<>>, ctx))))

\* one iteration of the loop of lines 208-266
AppIteration(sectionName, valueName, app, ctx) ==
  AppSources(sectionName, valueName, app, LayerFor(MakeLower(app), ctx))

\* lines 207-266: iterate over application tags, from tag idx on
AppLoop(sectionName, valueName, idx, acc) ==
  IF acc.have \/ acc.ctx.failed \/ idx > Len(applicationNames) THEN acc
  ELSE AppLoop(sectionName, valueName, idx + 1,
               AppIteration(sectionName, valueName, applicationNames[idx], acc.ctx))

\* the section environment variable is read for the empty section too
TrySectionEnv_AnySection(sectionName, valueName, acc) ==
  IF ~acc.have THEN TryEnv(SectionEnvVarName(sectionName, valueName), acc) ELSE acc

\* lines 268-280: MIKTEX_<SECTIONNAME>_<VALUENAME>
TrySectionEnv(sectionName, valueName, acc) ==
  IF ~acc.have /\ sectionName # <<>>
  THEN TryEnv(SectionEnvVarName(sectionName, valueName), acc)
  ELSE acc

\* lines 282-292: MIKTEX_<VALUENAME>
TryPlainEnv(valueName, acc) ==
  IF ~acc.have THEN TryEnv(PlainEnvVarName(valueName), acc) ELSE acc

\* lines 294-302: <VALUENAME>
TryBareEnv(sectionName, valueName, acc) ==
  IF ~acc.have /\ sectionName = <<>> THEN TryEnv(valueName, acc) ELSE acc

\* lines 304-310: the registry, on Windows, not scoped by application tag
TryRegistry(sectionName, valueName, acc) ==
  IF ~acc.have /\ host.isWindows /\ ~host.portable /\ sectionName # <<>>
  THEN TryRegistryValue(sectionName, valueName, acc)
  ELSE acc

\* a value the session computes, which it may not have
Computed(name, dirs, acc) ==
  IF dirs.have THEN Acc(TRUE, dirs.value, Logged(acc.ctx, <<"special", name>>))
  ELSE Acc(FALSE, acc.value, Logged(acc.ctx, <<"special", name>>))

\* lines 312-368: special values, part 2
SpecialValues2(valueName, acc) ==
  IF acc.have THEN acc
  ELSE IF EqualsIgnoreCase(valueName, CFG_MACRO_NAME_BINDIR)
  THEN Computed(CFG_MACRO_NAME_BINDIR, Dirs(host.binDir), acc)
  ELSE IF EqualsIgnoreCase(valueName, CFG_MACRO_NAME_PROGNAME)
  THEN Computed(CFG_MACRO_NAME_PROGNAME, Dirs(applicationNames[1]), acc)
  ELSE IF host.isWindows /\ EqualsIgnoreCase(valueName, CFG_MACRO_NAME_WINDIR)
  THEN Computed(CFG_MACRO_NAME_WINDIR, Dirs(host.winDir), acc)
  ELSE IF EqualsIgnoreCase(valueName, CFG_MACRO_NAME_LOCALFONTDIRS)
  THEN Computed(CFG_MACRO_NAME_LOCALFONTDIRS, Dirs(host.localFontDirs), acc)
  ELSE IF EqualsIgnoreCase(valueName, CFG_MACRO_NAME_PSFONTDIRS)
  THEN Computed(CFG_MACRO_NAME_PSFONTDIRS, host.psFontDirs, acc)
  ELSE IF EqualsIgnoreCase(valueName, CFG_MACRO_NAME_TTFDIRS)
  THEN Computed(CFG_MACRO_NAME_TTFDIRS, host.ttfDirs, acc)
  ELSE IF EqualsIgnoreCase(valueName, CFG_MACRO_NAME_OTFDIRS)
  THEN Computed(CFG_MACRO_NAME_OTFDIRS, host.otfDirs, acc)
  ELSE acc

\* miktex_config_ini is parsed on every use
FactoryLayer_AlwaysParses(ctx) ==
  Logged([ctx EXCEPT !.cs = CsInsert(@, FactorySettingsKey,
                                     CfgRead(EmptyCfg, host.factoryIni))],
         <<"parse", FactorySettingsKey>>)

\* lines 374-388: the factory settings, parsed from miktex_config_ini on first use
FactoryLayer(ctx) ==
  IF FactorySettingsKey \in DOMAIN ctx.cs THEN ctx
  ELSE Logged([ctx EXCEPT !.cs = CsInsert(@, FactorySettingsKey,
                                         CfgRead(EmptyCfg, host.factoryIni))],
              <<"parse", FactorySettingsKey>>)

\* lines 370-394: try factory settings
TryFactory(sectionName, valueName, acc) ==
  IF acc.have THEN acc
  ELSE TryCfg(FactorySettingsKey, sectionName, valueName,
              Acc(FALSE, acc.value, FactoryLayer(acc.ctx)))

\* lines 198-394: the sources in the order the code consults them; the
\* result is the raw, not yet expanded, value
SessionSources(sectionName, valueName, acc) ==
  IF acc.ctx.failed THEN acc
  ELSE TryFactory(sectionName, valueName,
         SpecialValues2(valueName,
           TryRegistry(sectionName, valueName,
             TryBareEnv(sectionName, valueName,
               TryPlainEnv(valueName,
                 TrySectionEnv(sectionName, valueName, acc))))))

ResolveRaw(sectionName, valueName, ctx) ==
  SessionSources(sectionName, valueName,
    AppLoop(sectionName, valueName, 1,
      SpecialValues1(valueName, Acc(FALSE, <<>>, ctx))))

\* the text is folded to lower case before it is scanned
ExpandValues_Folded(toBeExpanded, callback, ctx) ==
  ExpandValuesFrom(MakeLower(toBeExpanded), 1, callback, <<>>,
                   Scanned(ctx, <<"enter", Len(toBeExpanded)>>))

\* Expand(toBeExpanded, callback): lines 700-725 with { ExpandOption::Values }
ExpandValues(toBeExpanded, callback, ctx) ==
  ExpandValuesFrom(toBeExpanded, 1, callback, <<>>, Scanned(ctx, <<"enter", Len(toBeExpanded)>>))

\* the value is taken as it is: lines 396-403 left out
ExpandSessionValue_Skipped(value, callback, ctx) == Returned(TRUE, value, ctx)

\* lines 396-403: expand the value
ExpandSessionValue(value, callback, ctx) == ExpandValues(value, callback, ctx)

\* lines 396-417, given the raw value
SessionValueOf(raw, callback) ==
  IF raw.ctx.failed THEN Thrown(raw.ctx)
  ELSE IF raw.have THEN ExpandSessionValue(raw.value, callback, raw.ctx)
  ELSE Returned(FALSE, raw.value, raw.ctx)

GetSessionValue(sectionName, valueName, callback, ctx) ==
  SessionValueOf(ResolveRaw(sectionName, valueName, ctx), callback)

\* the escape is not recognised: a dollar sign is read on its own
IsEscape_Never(s, i) == FALSE

\* line 737
IsEscape(s, i) == At(s, i + 1) = "$"

\* line 742
StartsName(s, i) ==
  At(s, i + 1) = "{" \/ IsAlphaAscii(At(s, i + 1)) \/ At(s, i + 1) = "_"

\* lines 749-752: the first position from i on that ends a $NAME
EndOfName(s, i) ==
  CHOOSE k \in i..(Len(s) + 1) :
    /\ k = Len(s) + 1 \/ ~(IsAlnum(s[k]) \/ s[k] = "_")
    /\ \A j \in i..(k - 1) : IsAlnum(s[j]) \/ s[j] = "_"

\* lines 757-760: the first position from i on that holds endChar, or the end
EndOfBraced(s, i) ==
  CHOOSE k \in i..(Len(s) + 1) :
    /\ k = Len(s) + 1 \/ s[k] = "}"
    /\ \A j \in i..(k - 1) : s[j] # "}"

\* line 770
IsBeingExpanded(valueName, vbe) == valueName \in vbe

\* line 774
InsertBeingExpanded(ctx, valueName) == [ctx EXCEPT !.vbe = @ \cup {valueName}]

\* line 794
EraseBeingExpanded(ctx, valueName) == [ctx EXCEPT !.vbe = @ \ {valueName}]

\* the callback reports failure for every name
CallbackHas_Never(callback, valueName) == FALSE

\* callback->TryGetValue(valueName, value)
CallbackHas(callback, valueName) ==
  callback.present /\ valueName \in DOMAIN callback.values

\* the callback is not asked
LookupValue_ConfigOnly(valueName, callback, ctx) ==
  GetSessionValue(MIKTEX_CONFIG_SECTION_NONE, valueName, NoCallback, ctx)

\* lines 776-784: the callback first, then the configuration, section none
LookupValue(valueName, callback, ctx) ==
  IF CallbackHas(callback, valueName)
  THEN Returned(TRUE, callback.values[valueName],
                Logged(ctx, <<"callback", valueName>>))
  ELSE GetSessionValue(MIKTEX_CONFIG_SECTION_NONE, valueName, NoCallback,
                       IF callback.present
                       THEN Logged(ctx, <<"callback", valueName>>) ELSE ctx)

\* the scan goes on behind the character that follows the dollar sign
Unresolved_TwoCharacters(s, i, callback, expansion, ctx) ==
  ExpandValuesFrom(s, i + 2, callback,
                   Append(Append(expansion, s[i]), s[i + 1]), ctx)

\* lines 789-793: the reference is left in the text
Unresolved(s, i, callback, expansion, ctx) ==
  ExpandValuesFrom(s, i + 1, callback, Append(expansion, s[i]), ctx)

\* lines 785-794, given the outcome r of the lookup
Splice(s, i, callback, expansion, valueName, resume, r) ==
  IF r.thrown THEN Thrown(r.ctx)
  ELSE IF r.have
  THEN ExpandValuesFrom(s, resume, callback, expansion \o r.value,
                        EraseBeingExpanded(r.ctx, valueName))
  ELSE Unresolved(s, i, callback, expansion, EraseBeingExpanded(r.ctx, valueName))

\* lines 770-794: the reference s[i..resume-1] to valueName
ExpandNamed(s, i, callback, expansion, ctx, valueName, resume) ==
  IF IsBeingExpanded(valueName, ctx.vbe) THEN Thrown(ctx)
  ELSE Splice(s, i, callback, expansion, valueName, resume,
              LookupValue(valueName, callback, InsertBeingExpanded(ctx, valueName)))

\* the empty name is looked up like any other
BracedReference_EmptyName(s, i, callback, expansion, ctx, stop) ==
  IF stop > Len(s) THEN Thrown(ctx)
  ELSE ExpandNamed(s, i, callback, expansion, ctx, Slice(s, i + 2, stop - 1),
                   stop + 1)

\* lines 755-769: ${NAME}, with stop the position of the closing brace
BracedReference(s, i, callback, expansion, ctx, stop) ==
  IF stop > Len(s) THEN Thrown(ctx)
  ELSE IF Slice(s, i + 2, stop - 1) = <<>> THEN Thrown(ctx)
  ELSE ExpandNamed(s, i, callback, expansion, ctx, Slice(s, i + 2, stop - 1),
                   stop + 1)

\* lines 744-794: a reference that starts at s[i]
ExpandReference(s, i, callback, expansion, ctx) ==
  IF At(s, i + 1) = "{"
  THEN BracedReference(s, i, callback, expansion, ctx, EndOfBraced(s, i + 2))
  ELSE ExpandNamed(s, i, callback, expansion, ctx,
                   Slice(s, i + 1, EndOfName(s, i + 1) - 1), EndOfName(s, i + 1))

\* lines 733-806: the scan from s[i] on
ExpandValuesFrom(s, i, callback, expansion, ctx) ==
  IF i > Len(s) THEN Returned(TRUE, expansion, Scanned(ctx, <<"leave">>))
  ELSE IF s[i] # "$"
  THEN ExpandValuesFrom(s, i + 1, callback, Append(expansion, s[i]),
                        Scanned(ctx, <<"at", i>>))
  ELSE IF IsEscape(s, i)
  THEN ExpandValuesFrom(s, i + 2, callback, Append(expansion, "$"),
                        Scanned(ctx, <<"at", i>>))
  ELSE IF StartsName(s, i)
  THEN ExpandReference(s, i, callback, expansion, Scanned(ctx, <<"at", i>>))
  ELSE ExpandValuesFrom(s, i + 1, callback, Append(expansion, "$"),
                        Scanned(ctx, <<"at", i>>))

-----------------------------------------------------------------------------
(* ConfigValue                                                             *)

\* ConfigValue(): Type::None
NoneValue == [type |-> "None", str |-> <<>>]

\* ConfigValue(const std::string&)
StringValue(s) == [type |-> "String", str |-> s]

StrTrue == <<"t","r","u","e">>

StrFalse == <<"f","a","l","s","e">>

\* ConfigValue(bool); GetString() of it
BoolValue(b) == [type |-> "Bool", str |-> IF b THEN StrTrue ELSE StrFalse]

\* ConfigValue::GetBool of a string: the spellings it accepts
BoolSpellingsTrue == { StrTrue, <<"t">>, <<"1">> }

BoolSpellingsFalse == { StrFalse, <<"f">>, <<"0">> }

-----------------------------------------------------------------------------
(* The calls of the session                                                *)

\* the context a top-level call starts with
EntryCtx == Ctx(configurationSettings, valuesBeingExpanded, registry, <<>>)

\* what a call records about the state it found
Pre == [vbe |-> valuesBeingExpanded, cs |-> configurationSettings, disk |-> disk,
        registry |-> registry, adminMode |-> adminMode]

\* the outcome of a top-level call: a fatal error, or a ConfigValue
Fatal(ctx) == [thrown |-> TRUE, result |-> NoneValue, ctx |-> ctx]

Value(result, ctx) == [thrown |-> FALSE, result |-> result, ctx |-> ctx]

\* ConfigValue(Expand(...)): lines 434
ExpandedValue(x) ==
  IF x.thrown THEN Fatal(x.ctx) ELSE Value(StringValue(x.value), x.ctx)

\* the value GetSessionValue hands back is expanded once more
ConfigValueOf_ExpandsAgain(r, defaultValue, callback) ==
  IF r.thrown THEN Fatal(r.ctx)
  ELSE IF r.have THEN ExpandedValue(ExpandValues(r.value, callback, r.ctx))
  ELSE IF defaultValue.type # "None"
  THEN ExpandedValue(ExpandValues(defaultValue.str, callback, r.ctx))
  ELSE Value(NoneValue, r.ctx)

\* lines 428-440, given the outcome r of GetSessionValue
ConfigValueOf(r, defaultValue, callback) ==
  IF r.thrown THEN Fatal(r.ctx)
  ELSE IF r.have THEN Value(StringValue(r.value), r.ctx)
  ELSE IF defaultValue.type # "None"
  THEN ExpandedValue(ExpandValues(defaultValue.str, callback, r.ctx))
  ELSE Value(NoneValue, r.ctx)

\* GetConfigValue(sectionName, valueName, defaultValue, callback): lines 425-441;
\* with defaultValue of Type::None it is also the overload of lines 443-454
GetConfigValueIn(sectionName, valueName, defaultValue, callback, ctx) ==
  ConfigValueOf(GetSessionValue(sectionName, valueName, callback, ctx),
                defaultValue, callback)

\* what is kept of the call before the last one
Summary(call) ==
  [op |-> call.op, sectionName |-> call.sectionName, valueName |-> call.valueName,
   str |-> call.str, thrown |-> call.thrown, log |-> call.log,
   cached |-> DOMAIN call.pre.cs]

\* a call ends: the session and the files are as the call left them
Commit(op, sectionName, valueName, str, callback, defaultValue, out, newDisk) ==
  /\ configurationSettings' = out.ctx.cs
  /\ valuesBeingExpanded' = out.ctx.vbe
  /\ registry' = out.ctx.reg
  /\ disk' = newDisk
  /\ last' = [op |-> op, sectionName |-> sectionName, valueName |-> valueName,
              str |-> str, callback |-> callback, default |-> defaultValue,
              thrown |-> out.thrown, result |-> out.result, log |-> out.ctx.log,
              scan |-> out.ctx.scan,
              pre |-> Pre, prev |-> Summary(last)]
  /\ calls' = calls + 1
  /\ UNCHANGED <<host, applicationNames, env, adminMode, initStartupConfig,
                 fileTypes, filenameDatabase, input>>

\* Expand(toBeExpanded, callback): lines 700-703
Expand(toBeExpanded, callback) ==
  Commit("Expand", <<>>, <<>>, toBeExpanded, callback, NoneValue,
         ExpandedValue(ExpandValues(toBeExpanded, callback, EntryCtx)), disk)

\* DefaultCallback: lines 662-692; the two names it knows are build macros
MIKTEX_SYSTEM_TAG == <<"M","I","K","T","E","X","_","S","Y","S","T","E","M","_","T","A","G">>

MIKTEX_EXE_FILE_SUFFIX ==
  <<"M","I","K","T","E","X","_","E","X","E","_","F","I","L","E","_","S","U","F","F","I","X">>

DefaultCallback ==
  Callback([valueName \in {MIKTEX_SYSTEM_TAG, MIKTEX_EXE_FILE_SUFFIX} |->
              IF valueName = MIKTEX_SYSTEM_TAG THEN host.systemTag
              ELSE host.exeFileSuffix])

\* Expand(toBeExpanded): lines 694-698
ExpandDefault(toBeExpanded) == Expand(toBeExpanded, DefaultCallback)

\* PathNameUtil::PathNameDelimiter
PathNameDelimiter == ";"

\* MakeSearchPath(paths): the paths joined by the delimiter
RECURSIVE MakeSearchPath(_)
MakeSearchPath(paths) ==
  IF paths = <<>> THEN <<>>
  ELSE IF Len(paths) = 1 THEN paths[1]
  ELSE paths[1] \o <<PathNameDelimiter>> \o MakeSearchPath(Tail(paths))

\* s[p] lies in a reference ${...}: its braces are not alternatives
InVarRef(s, p) ==
  \E b \in 1..(p - 1) :
    s[b] = "$" /\ At(s, b + 1) = "{" /\ p <= EndOfBraced(s, b + 2)

\* the position of the first } that closes a group {a,b,...}; 0 without one
GroupClose(s) ==
  IF \E c \in DOMAIN s :
       /\ s[c] = "}" /\ ~InVarRef(s, c)
       /\ \E o \in 1..(c - 1) : s[o] = "{" /\ ~InVarRef(s, o)
  THEN CHOOSE c \in DOMAIN s :
         /\ s[c] = "}" /\ ~InVarRef(s, c)
         /\ \E o \in 1..(c - 1) : s[o] = "{" /\ ~InVarRef(s, o)
         /\ \A d \in 1..(c - 1) :
              ~(/\ s[d] = "}" /\ ~InVarRef(s, d)
                /\ \E o \in 1..(d - 1) : s[o] = "{" /\ ~InVarRef(s, o))
  ELSE 0

\* the position of the { that the } at c closes: the last one before it
GroupOpen(s, c) ==
  CHOOSE o \in 1..(c - 1) :
    /\ s[o] = "{" /\ ~InVarRef(s, o)
    /\ \A q \in (o + 1)..(c - 1) : ~(s[q] = "{" /\ ~InVarRef(s, q))

\* the items of str from str[i] on, split at the separator
RECURSIVE SplitFrom(_, _, _, _)
SplitFrom(str, separator, i, item) ==
  IF i > Len(str) THEN <<item>>
  ELSE IF str[i] = separator
  THEN <<item>> \o SplitFrom(str, separator, i + 1, <<>>)
  ELSE SplitFrom(str, separator, i + 1, Append(item, str[i]))

RECURSIVE ExpandBraces(_)
RECURSIVE ExpandAlternatives(_, _, _, _)

\* every alternative from the k-th on, between prefix and suffix
ExpandAlternatives(prefix, alternatives, suffix, k) ==
  IF k > Len(alternatives) THEN <<>>
  ELSE ExpandBraces(prefix \o alternatives[k] \o suffix)
         \o ExpandAlternatives(prefix, alternatives, suffix, k + 1)

\* the group that ends at c, expanded
ExpandGroup(s, o, c) ==
  ExpandAlternatives(Slice(s, 1, o - 1),
                     SplitFrom(Slice(s, o + 1, c - 1), ",", 1, <<>>),
                     Slice(s, c + 1, Len(s)), 1)

\* ExpandBraces(toBeExpanded): the alternatives {a,b,...} multiplied out
ExpandBraces(s) ==
  IF GroupClose(s) = 0 THEN <<s>>
  ELSE ExpandGroup(s, GroupOpen(s, GroupClose(s)), GroupClose(s))

\* the placeholder that stands for every root directory
RootPlaceholder == <<"%", "R">>

\* a path that starts with the placeholder of the root directories becomes
\* one path for each root
ExpandPathPattern(path) ==
  IF Len(path) >= 2 /\ Slice(path, 1, 2) = RootPlaceholder
  THEN [r \in DOMAIN host.rootDirs |-> host.rootDirs[r] \o Slice(path, 3, Len(path))]
  ELSE <<path>>

RECURSIVE ExpandPathPatternsFrom(_, _)
ExpandPathPatternsFrom(paths, k) ==
  IF k > Len(paths) THEN <<>>
  ELSE ExpandPathPattern(paths[k]) \o ExpandPathPatternsFrom(paths, k + 1)

\* ExpandPathPatterns(toBeExpanded): every path of the search path expanded
ExpandPathPatterns(s) ==
  ExpandPathPatternsFrom(SplitFrom(s, PathNameDelimiter, 1, <<>>), 1)

\* lines 708-711 and 716-719
BracesPass(options, x) ==
  IF x.thrown \/ "Braces" \notin options THEN x
  ELSE Returned(TRUE, MakeSearchPath(ExpandBraces(x.value)), x.ctx)

\* lines 712-715
ValuesPass(options, callback, x) ==
  IF x.thrown \/ "Values" \notin options THEN x
  ELSE ExpandValues(x.value, callback, x.ctx)

\* lines 720-723
PathPatternsPass(options, x) ==
  IF x.thrown \/ "PathPatterns" \notin options THEN x
  ELSE Returned(TRUE, MakeSearchPath(ExpandPathPatterns(x.value)), x.ctx)

\* value-expansion comes last
PassesIn_ValuesLast(toBeExpanded, options, callback, ctx) ==
  PathPatternsPass(options,
    ValuesPass(options, callback,
      BracesPass(options,
        BracesPass(options, Returned(TRUE, toBeExpanded, ctx)))))

\* lines 707-724
PassesIn(toBeExpanded, options, callback, ctx) ==
  PathPatternsPass(options,
    BracesPass(options,
      ValuesPass(options, callback,
        BracesPass(options, Returned(TRUE, toBeExpanded, ctx)))))

\* Expand(toBeExpanded, options, callback): lines 705-725
ExpandOptions(toBeExpanded, options, callback) ==
  Commit("ExpandOptions", <<>>, <<>>, toBeExpanded, callback, NoneValue,
         ExpandedValue(PassesIn(toBeExpanded, options, callback, EntryCtx)), disk)

GetConfigValue(sectionName, valueName, defaultValue, callback) ==
  Commit("GetConfigValue", sectionName, valueName, <<>>, callback, defaultValue,
         GetConfigValueIn(sectionName, valueName, defaultValue, callback, EntryCtx),
         disk)

\* what TryGetConfigValue hands back: the value, if GetSessionValue has one
TriedValue(r) ==
  IF r.thrown THEN Fatal(r.ctx)
  ELSE IF r.have THEN Value(StringValue(r.value), r.ctx)
  ELSE Value(NoneValue, r.ctx)

\* TryGetConfigValue(sectionName, valueName, callback, value): lines 420-423
TryGetConfigValue(sectionName, valueName, callback) ==
  Commit("TryGetConfigValue", sectionName, valueName, <<>>, callback, NoneValue,
         TriedValue(GetSessionValue(sectionName, valueName, callback, EntryCtx)),
         disk)

\* GetSpecialPath(SpecialPath::ConfigRoot): the root SetConfigValue writes to
ConfigRoot == IF adminMode THEN host.commonConfigRoot ELSE host.userConfigRoot

\* File::Exists(pathConfigFile)
HaveConfigFile == MIKTEX_INI_BASE \in DOMAIN disk[ConfigRoot]

\* the file is not read: the value is put into an empty store
LoadConfigFile_Empty == EmptyCfg

\* lines 462-469: the configuration file as it is on disk, if there is one
LoadConfigFile ==
  IF HaveConfigFile THEN CfgRead(EmptyCfg, disk[ConfigRoot][MIKTEX_INI_BASE])
  ELSE EmptyCfg

\* the file is not written
WriteConfigFile_Lost(d, cfg) == d

\* cfg->Write(pathConfigFile)
WriteConfigFile(d, cfg) ==
  [d EXCEPT ![ConfigRoot] =
     [b \in DOMAIN @ \cup {MIKTEX_INI_BASE} |->
        IF b = MIKTEX_INI_BASE THEN cfg ELSE @[b]]]

\* the file is written and the cache is left as it is
SetInFile_KeepsCache(sectionName, valueName, value, ctx) ==
  Commit("SetConfigValue", sectionName, valueName, value.str, NoCallback, NoneValue,
         Value(NoneValue, Logged(ctx, <<"write", MIKTEX_INI_BASE>>)),
         WriteConfigFile(disk,
           CfgPutValue(CfgClearValue(LoadConfigFile, sectionName, valueName),
                       sectionName, valueName, value.str)))

\* lines 489-496: the value goes to the configuration file
SetInFile(sectionName, valueName, value, ctx) ==
  Commit("SetConfigValue", sectionName, valueName, value.str, NoCallback, NoneValue,
         Value(NoneValue, Logged([ctx EXCEPT !.cs = [k \in {} |-> EmptyCfg]],
                                 <<"write", MIKTEX_INI_BASE>>)),
         WriteConfigFile(disk,
           CfgPutValue(CfgClearValue(LoadConfigFile, sectionName, valueName),
                       sectionName, valueName, value.str)))

\* lines 477-485, given the outcome v of reading the value back
VerifyRegistry(sectionName, valueName, value, v) ==
  Commit("SetConfigValue", sectionName, valueName, value.str, NoCallback, NoneValue,
         IF v.thrown \/ (v.have /\ v.value # value.str) THEN Fatal(v.ctx)
         ELSE Value(NoneValue, v.ctx),
         disk)

\* lines 476-485: the value goes to the registry
SetInRegistry(sectionName, valueName, value, ctx) ==
  VerifyRegistry(sectionName, valueName, value,
    GetSessionValue(sectionName, valueName, NoCallback,
      [ctx EXCEPT !.reg = RegistrySetValue(@, adminMode, sectionName, valueName,
                                           value.str)]))

\* line 474, given the outcome flag of reading [Core]NoRegistry
SetByFlag(sectionName, valueName, value, flag) ==
  IF flag.thrown \/ flag.result.str \notin BoolSpellingsTrue \cup BoolSpellingsFalse
  THEN Commit("SetConfigValue", sectionName, valueName, value.str, NoCallback,
              NoneValue, Fatal(flag.ctx), disk)
  ELSE IF flag.result.str \in BoolSpellingsFalse
  THEN SetInRegistry(sectionName, valueName, value, flag.ctx)
  ELSE SetInFile(sectionName, valueName, value, flag.ctx)

\* the registry is chosen when the configuration file exists
SetConfigValue_IfFileExists(sectionName, valueName, value) ==
  IF HaveConfigFile /\ Unreadable(ConfigRoot, MIKTEX_INI_BASE)
  THEN Commit("SetConfigValue", sectionName, valueName, value.str, NoCallback,
              NoneValue, Fatal(EntryCtx), disk)
  ELSE IF host.isWindows /\ HaveConfigFile /\ ~host.portable
  THEN SetByFlag(sectionName, valueName, value,
         GetConfigValueIn(MIKTEX_CONFIG_SECTION_CORE, MIKTEX_CONFIG_VALUE_NO_REGISTRY,
                          BoolValue(~host.useWindowsRegistry), NoCallback, EntryCtx))
  ELSE SetInFile(sectionName, valueName, value, EntryCtx)

\* SetConfigValue(sectionName, valueName, value): lines 456-497
SetConfigValue(sectionName, valueName, value) ==
  IF HaveConfigFile /\ Unreadable(ConfigRoot, MIKTEX_INI_BASE)
  THEN Commit("SetConfigValue", sectionName, valueName, value.str, NoCallback,
              NoneValue, Fatal(EntryCtx), disk)
  ELSE IF host.isWindows /\ ~HaveConfigFile /\ ~host.portable
  THEN SetByFlag(sectionName, valueName, value,
         GetConfigValueIn(MIKTEX_CONFIG_SECTION_CORE, MIKTEX_CONFIG_VALUE_NO_REGISTRY,
                          BoolValue(~host.useWindowsRegistry), NoCallback, EntryCtx))
  ELSE SetInFile(sectionName, valueName, value, EntryCtx)

\* initStartupConfig.isSharedSetup: TriState::True, TriState::False
SharedSetup == [isSharedSetup |-> "True"]

PrivateSetup == [isSharedSetup |-> "False"]

\* InitializeRootDirectories(initStartupConfig, false): the roots are
\* registered again for the new mode and every cached application layer is
\* dropped; the factory settings stay
InitializeRootDirectories(ctx) ==
  [ctx EXCEPT !.cs = [k \in DOMAIN @ \cap {FactorySettingsKey} |-> @[k]]]

\* the roots are not initialized again
ReinitializeRoots_Never(ctx) == ctx

\* lines 518-522
ReinitializeRoots(ctx) ==
  IF Len(host.roots) # 0 THEN InitializeRootDirectories(ctx) ELSE ctx

\* line 513: the trace of a mode that changes
Turning(newAdminMode) ==
  <<"turning", IF newAdminMode THEN <<"o", "n">> ELSE <<"o", "f", "f">> >>

\* a call of SetAdminMode ends; its arguments are kept: the mode as the
\* default of the call, force as its string; cleared says that lines 515-516
\* were reached
ModeCommit(newAdminMode, force, newSetup, cleared, out) ==
  /\ adminMode' = IF out.thrown THEN adminMode ELSE newAdminMode
  /\ initStartupConfig' = newSetup
  /\ fileTypes' = IF cleared THEN {} ELSE fileTypes
  /\ filenameDatabase' = IF cleared THEN {} ELSE filenameDatabase
  /\ configurationSettings' = out.ctx.cs
  /\ last' = [op |-> "SetAdminMode", sectionName |-> <<>>, valueName |-> <<>>,
              str |-> BoolValue(force).str, callback |-> NoCallback,
              default |-> BoolValue(newAdminMode),
              thrown |-> out.thrown, result |-> out.result, log |-> out.ctx.log,
              scan |-> out.ctx.scan,
              pre |-> Pre, prev |-> Summary(last)]
  /\ calls' = calls + 1
  /\ UNCHANGED <<host, applicationNames, env, registry, disk, valuesBeingExpanded,
                 input>>

\* the file types and the file name database are dropped before the setup
\* is looked at
SetAdminMode_ClearsFirst(newAdminMode, force) ==
  IF adminMode = newAdminMode
  THEN ModeCommit(newAdminMode, force, initStartupConfig, FALSE,
                  Value(NoneValue, EntryCtx))
  ELSE IF newAdminMode /\ initStartupConfig.isSharedSetup # "True" /\ ~force
  THEN ModeCommit(newAdminMode, force, initStartupConfig, TRUE, Fatal(EntryCtx))
  ELSE ModeCommit(newAdminMode, force,
                  IF newAdminMode THEN SharedSetup ELSE initStartupConfig, TRUE,
                  Value(NoneValue,
                        ReinitializeRoots(Logged(EntryCtx, Turning(newAdminMode)))))

\* SetAdminMode(adminMode, force): lines 499-523
SetAdminMode(newAdminMode, force) ==
  IF adminMode = newAdminMode
  THEN ModeCommit(newAdminMode, force, initStartupConfig, FALSE,
                  Value(NoneValue, EntryCtx))
  ELSE IF newAdminMode /\ initStartupConfig.isSharedSetup # "True" /\ ~force
  THEN ModeCommit(newAdminMode, force, initStartupConfig, FALSE, Fatal(EntryCtx))
  ELSE ModeCommit(newAdminMode, force,
                  IF newAdminMode THEN SharedSetup ELSE initStartupConfig, TRUE,
                  Value(NoneValue,
                        ReinitializeRoots(Logged(EntryCtx, Turning(newAdminMode)))))

-----------------------------------------------------------------------------
(* GetShellCommandMode: config.cpp 809-840                                 *)

MIKTEX_CONFIG_VALUE_SHELLCOMMANDMODE ==
  <<"S","h","e","l","l","C","o","m","m","a","n","d","M","o","d","e">>

MIKTEX_CONFIG_VALUE_ALLOW_UNRESTRICTED_SUPER_USER ==
  <<"A","l","l","o","w","U","n","r","e","s","t","r","i","c","t","e","d","S","u","p","e","r","U","s","e","r">>

\* the four mode strings of lines 812-824
Forbidden == <<"F","o","r","b","i","d","d","e","n">>

Query == <<"Q","u","e","r","y">>

Restricted == <<"R","e","s","t","r","i","c","t","e","d">>

Unrestricted == <<"U","n","r","e","s","t","r","i","c","t","e","d">>

\* a value of the enumeration ShellCommandMode
ShellCommandMode(mode) == [type |-> "ShellCommandMode", str |-> mode]

\* RunningAsAdministrator(): whether the process has administrator rights
RunningAsAdministrator == host.runningAsAdministrator

\* lines 826-834, given the outcome allow of reading
\* [Core]AllowUnrestrictedSuperUser; GetBool of a value that is missing or
\* is no spelling of a boolean is an error
UnrestrictedIfAllowed(allow) ==
  IF allow.thrown \/ allow.result.str \notin BoolSpellingsTrue \cup BoolSpellingsFalse
  THEN Fatal(allow.ctx)
  ELSE IF allow.result.str \in BoolSpellingsFalse
  THEN Value(ShellCommandMode(Restricted), allow.ctx)
  ELSE Value(ShellCommandMode(Unrestricted), allow.ctx)

\* the administrator is not told apart
ShellCommandModeOf_AnyUser(v) ==
  IF v.thrown THEN Fatal(v.ctx)
  ELSE IF v.result.str \in {Forbidden, Query, Restricted, Unrestricted}
  THEN Value(ShellCommandMode(v.result.str), v.ctx)
  ELSE Fatal(v.ctx)

\* lines 812-839, given the outcome v of reading [Core]ShellCommandMode;
\* GetString of a missing value is taken as the empty string, which is none
\* of the four
ShellCommandModeOf(v) ==
  IF v.thrown THEN Fatal(v.ctx)
  ELSE IF v.result.str = Forbidden THEN Value(ShellCommandMode(Forbidden), v.ctx)
  ELSE IF v.result.str = Query THEN Value(ShellCommandMode(Query), v.ctx)
  ELSE IF v.result.str = Restricted THEN Value(ShellCommandMode(Restricted), v.ctx)
  ELSE IF v.result.str = Unrestricted
  THEN IF RunningAsAdministrator
       THEN UnrestrictedIfAllowed(
              GetConfigValueIn(MIKTEX_CONFIG_SECTION_CORE,
                               MIKTEX_CONFIG_VALUE_ALLOW_UNRESTRICTED_SUPER_USER,
                               NoneValue, NoCallback, v.ctx))
       ELSE Value(ShellCommandMode(Unrestricted), v.ctx)
  ELSE Fatal(v.ctx)

\* GetShellCommandMode(): lines 809-840
GetShellCommandMode ==
  Commit("GetShellCommandMode", MIKTEX_CONFIG_SECTION_CORE,
         MIKTEX_CONFIG_VALUE_SHELLCOMMANDMODE, <<>>, NoCallback, NoneValue,
         ShellCommandModeOf(
           GetConfigValueIn(MIKTEX_CONFIG_SECTION_CORE,
                            MIKTEX_CONFIG_VALUE_SHELLCOMMANDMODE,
                            NoneValue, NoCallback, EntryCtx)),
         disk)

-----------------------------------------------------------------------------
(* ToSafeCommandLine: config.cpp 850-962                                   *)

DoubleQuote == "\""

SingleQuote == "'"

Space == " "

Tab == "\t"

IsWhitespaceAscii(ch) == ch \in {Space, Tab}

\* lines 852-856
quoteChar == IF host.isWindows THEN DoubleQuote ELSE SingleQuote

\* the failure result: the empty string
QuotationError == <<>>

RECURSIVE SkipWhitespace(_, _)
RECURSIVE EndOfToken(_, _)
RECURSIVE SafeFrom(_, _, _, _)
RECURSIVE CopyQuoted(_, _, _)

\* lines 860-863: the index of the first character that is not whitespace
SkipWhitespace(s, i) ==
  IF IsWhitespaceAscii(At(s, i)) THEN SkipWhitespace(s, i + 1) ELSE i

\* lines 865-868: the index after the token that begins at i
EndOfToken(s, i) ==
  IF ~IsWhitespaceAscii(At(s, i)) /\ At(s, i) # NUL THEN EndOfToken(s, i + 1) ELSE i

\* whatever follows the closing quotation mark is taken
AfterQuoted_AnyFollower(s, i, out) == SafeFrom(s, i, out, FALSE)

\* lines 926-931: after the closing quotation mark
AfterQuoted(s, i, out) ==
  IF ~IsWhitespaceAscii(At(s, i)) /\ At(s, i) # NUL
  THEN QuotationError
  ELSE SafeFrom(s, i, out, FALSE)

\* lines 912-924: the quoted argument is copied up to its closing mark
CopyQuoted(s, i, out) ==
  IF At(s, i) = DoubleQuote THEN AfterQuoted(s, i + 1, out)
  ELSE IF At(s, i) = SingleQuote \/ At(s, i) = NUL THEN QuotationError
  ELSE CopyQuoted(s, i + 1, Append(out, At(s, i)))

\* the argument that is open is left open before the quoted one
CloseOpenArgument_Never(s, i, out, previousIsWhitespace) == out

\* lines 891-906: the argument that is open is closed before the quoted one
CloseOpenArgument(s, i, out, previousIsWhitespace) ==
  IF previousIsWhitespace THEN out
  ELSE IF host.isWindows /\ At(s, i - 1) = "="
  THEN Append([out EXCEPT ![Len(out)] = quoteChar], "=")
  ELSE Append(out, quoteChar)

\* a single quote among the arguments is copied like any other character
SafeFrom_SingleQuoteCopied(s, i, out, previousIsWhitespace) ==
  IF At(s, i) = NUL
  THEN IF ~previousIsWhitespace THEN Append(out, quoteChar) ELSE out
  ELSE IF At(s, i) = DoubleQuote
  THEN CopyQuoted(s, i + 1,
         Append(CloseOpenArgument(s, i, out, previousIsWhitespace), quoteChar))
  ELSE IF previousIsWhitespace /\ ~IsWhitespaceAscii(At(s, i))
  THEN SafeFrom(s, i + 1, Append(Append(out, quoteChar), At(s, i)), FALSE)
  ELSE IF ~previousIsWhitespace /\ IsWhitespaceAscii(At(s, i))
  THEN SafeFrom(s, i + 1, Append(Append(out, quoteChar), At(s, i)), TRUE)
  ELSE SafeFrom(s, i + 1, Append(out, At(s, i)), previousIsWhitespace)

\* lines 871-961: the arguments, from s[i] on
SafeFrom(s, i, out, previousIsWhitespace) ==
  IF At(s, i) = NUL
  THEN IF ~previousIsWhitespace THEN Append(out, quoteChar) ELSE out
  ELSE IF At(s, i) = SingleQuote THEN QuotationError
  ELSE IF At(s, i) = DoubleQuote
  THEN CopyQuoted(s, i + 1,
         Append(CloseOpenArgument(s, i, out, previousIsWhitespace), quoteChar))
  ELSE IF previousIsWhitespace /\ ~IsWhitespaceAscii(At(s, i))
  THEN SafeFrom(s, i + 1, Append(Append(out, quoteChar), At(s, i)), FALSE)
  ELSE IF ~previousIsWhitespace /\ IsWhitespaceAscii(At(s, i))
  THEN SafeFrom(s, i + 1, Append(Append(out, quoteChar), At(s, i)), TRUE)
  ELSE SafeFrom(s, i + 1, Append(out, At(s, i)), previousIsWhitespace)

\* lines 859-870: the first token is copied as it is
SafeAfterToken(s, begin, end) ==
  SafeFrom(s, end, Slice(s, begin, end - 1), TRUE)

\* the first token is wrapped in quotation marks like an argument
ToSafeCommandLine_ProgramQuoted(unsafeCommandLine) ==
  SafeFrom(unsafeCommandLine, SkipWhitespace(unsafeCommandLine, 1), <<>>, TRUE)

ToSafeCommandLine(unsafeCommandLine) ==
  SafeAfterToken(unsafeCommandLine, SkipWhitespace(unsafeCommandLine, 1),
                 EndOfToken(unsafeCommandLine, SkipWhitespace(unsafeCommandLine, 1)))

-----------------------------------------------------------------------------
(* ExamineCommandLine: config.cpp 964-990                                  *)

\* Argv argv(commandLine): argv[0] is the first whitespace-delimited token
Argv0(commandLine) ==
  Slice(commandLine, SkipWhitespace(commandLine, 1),
        EndOfToken(commandLine, SkipWhitespace(commandLine, 1)) - 1)

\* argv.GetArgc() == 0
NoArguments(commandLine) == Argv0(commandLine) = <<>>

\* ConfigValue::GetStringArray: the items of a value, separated by ';'
RECURSIVE StringArrayFrom(_, _, _)
StringArrayFrom(str, i, item) ==
  IF i > Len(str) THEN (IF item = <<>> THEN {} ELSE {item})
  ELSE IF str[i] = ";"
  THEN (IF item = <<>> THEN {} ELSE {item}) \cup StringArrayFrom(str, i + 1, <<>>)
  ELSE StringArrayFrom(str, i + 1, Append(item, str[i]))

GetStringArray(v) ==
  [thrown |-> v.thrown, commands |-> StringArrayFrom(v.result.str, 1, <<>>),
   ctx |-> v.ctx]

\* GetAllowedShellCommands(): lines 842-845
GetAllowedShellCommands(ctx) ==
  GetStringArray(GetConfigValueIn(MIKTEX_CONFIG_SECTION_CORE,
                                  MIKTEX_CONFIG_VALUE_ALLOWEDSHELLCOMMANDS,
                                  NoneValue, NoCallback, ctx))

\* argv0 == PathName(cmd)
SamePathName(a, b) == EqualsIgnoreCase(a, b)

\* line 972: find_first_of("\"' \t") == npos
IsBareToken(token) ==
  \A i \in DOMAIN token : token[i] \notin {DoubleQuote, SingleQuote, Space, Tab}

\* the tuple ExamineCommandLine returns
Examined(examineResult, programPath, safeCommandLine) ==
  [classification |-> examineResult, programPath |-> programPath,
   safeCommandLine |-> safeCommandLine]

\* lines 980-989, given the safe command line of a command that is allowed
ProbablySafeOrSyntaxError(commandLine, safeCommandLine, ctx) ==
  IF safeCommandLine = <<>>
  THEN Value(Examined("SyntaxError", <<>>, <<>>), ctx)
  ELSE Value(Examined("ProbablySafe", Argv0(commandLine), safeCommandLine), ctx)

\* every command is taken to be on the list
ExamineBare_AllAllowed(commandLine, allowed) ==
  IF allowed.thrown THEN Fatal(allowed.ctx)
  ELSE ProbablySafeOrSyntaxError(commandLine, ToSafeCommandLine(commandLine),
                                 allowed.ctx)

\* lines 974-989, given the list of the allowed commands
ExamineBare(commandLine, allowed) ==
  IF allowed.thrown THEN Fatal(allowed.ctx)
  ELSE IF \E cmd \in allowed.commands : SamePathName(Argv0(commandLine), cmd)
  THEN ProbablySafeOrSyntaxError(commandLine, ToSafeCommandLine(commandLine),
                                 allowed.ctx)
  ELSE Value(Examined("MaybeSafe", Argv0(commandLine), <<>>), allowed.ctx)

\* lines 966-989
ExamineCommandLineIn(commandLine, ctx) ==
  IF NoArguments(commandLine)
  THEN Value(Examined("SyntaxError", <<>>, <<>>), ctx)
  ELSE IF IsBareToken(Argv0(commandLine))
  THEN ExamineBare(commandLine, GetAllowedShellCommands(ctx))
  ELSE Value(Examined("MaybeSafe", Argv0(commandLine), <<>>), ctx)

\* ExamineCommandLine(commandLine): lines 964-990
ExamineCommandLine(commandLine) ==
  Commit("ExamineCommandLine", <<>>, <<>>, commandLine, NoCallback, NoneValue,
         ExamineCommandLineIn(commandLine, EntryCtx), disk)

\* a call of ToSafeCommandLine; the session is not involved
SafeCommandLine(commandLine) ==
  Commit("ToSafeCommandLine", <<>>, <<>>, commandLine, NoCallback, NoneValue,
         Value(StringValue(ToSafeCommandLine(commandLine)), EntryCtx), disk)

-----------------------------------------------------------------------------
(* Installations, environments and files the behaviours start from         *)

Tex == <<"t","e","x">>

Miktex == <<"m","i","k","t","e","x">>

SectionS == <<"S">>

NameA == <<"A">>

NameB == <<"B">>

\* the roots of the installation, in search order: the user's configuration
\* root, the common configuration root, a root added by the user
Roots ==
  << [derivable |-> TRUE, managedIn |-> {FALSE}],
     [derivable |-> TRUE, managedIn |-> {FALSE, TRUE}],
     [derivable |-> TRUE, managedIn |-> {}] >>

\* a function given by its graph, a set of <<argument, value>> pairs
FromPairs(pairs) ==
  [x \in { p[1] : p \in pairs } |-> (CHOOSE p \in pairs : p[1] = x)[2]]

EmptyRegistry == [user |-> EmptyCfg, common |-> EmptyCfg]

NoFiles == [r \in DOMAIN Roots |-> [b \in {} |-> EmptyCfg]]

\* the files of d and the file baseName in root r
WithFile(d, r, baseName, cfg) ==
  [d EXCEPT ![r] = [b \in DOMAIN @ \cup {baseName} |->
                      IF b = baseName THEN cfg ELSE @[b]]]

UnixHost ==
  [isWindows |-> FALSE, portable |-> FALSE, useWindowsRegistry |-> FALSE,
   engineName |-> <<"p","d","f","t","e","x">>,
   binDir |-> <<"/","b","i","n">>,
   winDir |-> <<>>,
   localFontDirs |-> <<"/","f","o","n","t","s">>,
   psFontDirs |-> Dirs(<<"/","p","s">>),
   ttfDirs |-> NoDirs,
   otfDirs |-> NoDirs,
   factoryIni |-> EmptyCfg,
   roots |-> Roots,
   unreadable |-> {},
   runningAsAdministrator |-> FALSE,
   rootDirs |-> << <<"/", "u">>, <<"/", "c">> >>,
   systemTag |-> <<"l", "i", "n", "u", "x">>,
   exeFileSuffix |-> <<>>,
   userConfigRoot |-> 1,
   commonConfigRoot |-> 2]

WindowsHost ==
  [UnixHost EXCEPT !.isWindows = TRUE, !.useWindowsRegistry = TRUE,
                   !.winDir = <<"C",":","\\","W">>]

Initial ==
  [op |-> "none", sectionName |-> <<>>, valueName |-> <<>>, str |-> <<>>,
   callback |-> NoCallback, default |-> NoneValue, thrown |-> FALSE,
   result |-> NoneValue, log |-> <<>>, scan |-> <<>>,
   pre |-> [vbe |-> {}, cs |-> [k \in {} |-> EmptyCfg], disk |-> NoFiles,
            registry |-> EmptyRegistry, adminMode |-> FALSE],
   prev |-> [op |-> "none", sectionName |-> <<>>, valueName |-> <<>>, str |-> <<>>,
             thrown |-> FALSE, log |-> <<>>, cached |-> {}]]

\* the session after construction: nothing cached, nothing being expanded
Constructed ==
  /\ configurationSettings = [k \in {} |-> EmptyCfg]
  /\ valuesBeingExpanded = {}
  /\ fileTypes = {}
  /\ filenameDatabase = {}
  /\ calls = 0
  /\ last = Initial

-----------------------------------------------------------------------------
(* One call of Expand on an input drawn from all short strings             *)

MaxLen == 4

MaxNameLen == 3

ExpandAlphabet == {"$", "{", "}", "A", "B"}

\* the short strings, every braced reference to a short name, and every
\* such reference after an escaping dollar sign
ExpandInputs ==
  StringsUpTo(ExpandAlphabet, MaxLen)
    \cup { <<"$", "{">> \o n \o <<"}">> : n \in StringsUpTo(ExpandAlphabet, MaxNameLen) }
    \cup { <<"$", "$", "{">> \o n \o <<"}">> :
             n \in StringsUpTo(ExpandAlphabet, MaxNameLen) }

\* environments: nothing set; A refers to itself; A and B refer to each
\* other; B refers to A, which has a plain value, and so has a variable
\* whose name is the text ${
ExpandEnvs ==
  { FromPairs({}),
    FromPairs({ <<NameA, <<"$","A">> >> }),
    FromPairs({ <<NameA, <<"$","B">> >>, <<NameB, <<"$","{","A","}">> >> }),
    FromPairs({ <<NameA, <<"x","$","$">> >>, <<NameB, <<"$","{","A","}","y">> >>,
                <<<<"$","{">>, <<"z">> >> }) }

\* callbacks: none; one that gives A a value that refers to A and B
ExpandCallbacks ==
  { NoCallback,
    Callback(FromPairs({ <<NameA, <<"$","A","$","{","B","}">> >> })) }

InitExpand ==
  /\ host = UnixHost
  /\ applicationNames = <<Tex, Miktex>>
  /\ env \in ExpandEnvs
  /\ registry = EmptyRegistry
  /\ disk \in { NoFiles,
                WithFile(NoFiles, 1, Tex,
                         FromPairs({ <<CfgKey(Tex, NameB), <<"$","B">> >> })) }
  /\ adminMode = FALSE
  /\ initStartupConfig = PrivateSetup
  /\ input \in [str : ExpandInputs, callback : ExpandCallbacks]
  /\ Constructed

ExpandInput == calls = 0 /\ Expand(input.str, input.callback)

NextExpand == ExpandInput

SpecExpand == InitExpand /\ [][NextExpand]_vars

-----------------------------------------------------------------------------
(* One call of an overload of Expand: the passes a set of options asks for *)

ExpandOptionSets == SUBSET {"Braces", "Values", "PathPatterns"}

\* texts on which the order of the passes shows
OptionTexts ==
  { <<"a">>,
    <<"$", "A">>,
    <<"{", "a", ",", "b", "}">>,
    <<"{", "$", "A", ",", "b", "}">>,
    <<"$", "{", "A", "}">>,
    <<"%", "R", "$", "A">>,
    <<"%", "R", "{", "a", ",", "b", "}">>,
    <<"$", "{">>,
    <<"$">> \o MIKTEX_SYSTEM_TAG }

\* A is a group of alternatives; a text with a comma; the placeholder of the
\* roots; not set
OptionEnvs ==
  { FromPairs({ <<NameA, <<"{", "x", ",", "y", "}">> >> }),
    FromPairs({ <<NameA, <<"p", ",", "q">> >> }),
    FromPairs({ <<NameA, <<"%", "R">> >> }),
    FromPairs({}) }

OptionInputs ==
  [op : {"ExpandOptions"}, str : OptionTexts, options : ExpandOptionSets,
   callback : {NoCallback}]
    \cup [op : {"Expand"}, str : OptionTexts, options : {{"Values"}},
          callback : {NoCallback, Callback(FromPairs({ <<NameA, <<"c">> >> }))}]
    \cup [op : {"ExpandDefault"}, str : OptionTexts, options : {{"Values"}},
          callback : {DefaultCallback}]

InitOptions ==
  /\ host = UnixHost
  /\ applicationNames = <<Tex>>
  /\ env \in OptionEnvs
  /\ registry = EmptyRegistry
  /\ disk = NoFiles
  /\ adminMode = FALSE
  /\ initStartupConfig = PrivateSetup
  /\ input \in OptionInputs
  /\ Constructed

OptionsInput ==
  /\ calls = 0 /\ input.op = "ExpandOptions"
  /\ ExpandOptions(input.str, input.options, input.callback)

CallbackInput ==
  /\ calls = 0 /\ input.op = "Expand"
  /\ Expand(input.str, input.callback)

DefaultInput ==
  /\ calls = 0 /\ input.op = "ExpandDefault"
  /\ ExpandDefault(input.str)

NextOptions == OptionsInput \/ CallbackInput \/ DefaultInput

SpecOptions == InitOptions /\ [][NextOptions]_vars

-----------------------------------------------------------------------------
(* One resolution of a value, by TryGetConfigValue or GetConfigValue, in   *)
(* an installation where any subset of the sources has the value           *)

ResolveSections == { MIKTEX_CONFIG_SECTION_NONE, SectionS }

\* the engine-name macro as a caller may spell it
EngineAsWritten == <<"E","n","g","i","n","E">>

ResolveNames ==
  { NameA, CFG_MACRO_NAME_PSFONTDIRS, CFG_MACRO_NAME_TTFDIRS, EngineAsWritten }

\* a default that has an escape and a reference in it
ResolveDefault == StringValue(<<"$", "$", "d", "$", "B">>)

\* a callback that has a value for B
ResolveCallback == Callback(FromPairs({ <<NameB, <<"c", "b">> >> }))

\* TryGetConfigValue without a callback; GetConfigValue without a default,
\* with a default, and with a default and a callback
ResolveInputs ==
  [op : {"TryGetConfigValue"}, sectionName : ResolveSections, valueName : ResolveNames,
   default : {NoneValue}, callback : {NoCallback}]
    \cup [op : {"GetConfigValue"}, sectionName : ResolveSections,
          valueName : ResolveNames, default : {NoneValue, ResolveDefault},
          callback : {NoCallback}]
    \cup [op : {"GetConfigValue"}, sectionName : ResolveSections,
          valueName : ResolveNames, default : {ResolveDefault},
          callback : {ResolveCallback}]

ResolveAliases == { <<Tex>>, <<Tex, Miktex>>, <<Miktex, Tex>> }

\* the environment variables the resolution of [sectionName]valueName may
\* read, each with a value that tells it from the others
EnvPool(sectionName, valueName) ==
  { <<AppEnvVarName(Tex, DefaultSectionName(sectionName, Tex), valueName),
      <<"t", "$", "$">> >>,
    <<AppEnvVarName(Miktex, DefaultSectionName(sectionName, Miktex), valueName),
      <<"m">> >>,
    <<SectionEnvVarName(sectionName, valueName), <<"s">> >>,
    <<PlainEnvVarName(valueName), <<"p", "$", "$", "$", "$">> >>,
    <<valueName, <<"b">> >> }

ResolveEnvs(in) ==
  { FromPairs(set) : set \in SUBSET EnvPool(in.sectionName, in.valueName) }

\* the configuration files: tex.ini and miktex.ini in the user's
\* configuration root, each with the value or not there
TexIni(in) ==
  FromPairs({ <<CfgKey(DefaultSectionName(in.sectionName, Tex), in.valueName),
                <<"f", "t">> >> })

MiktexIni(in) ==
  FromPairs({ <<CfgKey(DefaultSectionName(in.sectionName, Miktex), in.valueName),
                <<"f", "m", "$", "B">> >> })

ResolveDisks(in) ==
  { NoFiles,
    WithFile(NoFiles, 1, Tex, TexIni(in)),
    WithFile(NoFiles, 1, Miktex, MiktexIni(in)),
    WithFile(WithFile(NoFiles, 1, Tex, TexIni(in)), 1, Miktex, MiktexIni(in)) }

\* the factory settings with a value for [sectionName]valueName
FactoryIni(in) ==
  FromPairs({ <<CfgKey(in.sectionName, in.valueName), <<"f", "f">> >> })

\* the registry with a value under the section the first iteration asks for
RegistryWith(in) ==
  [user |-> EmptyCfg,
   common |-> FromPairs({ <<CfgKey(DefaultSectionName(in.sectionName, Tex),
                                   in.valueName), <<"r">> >> })]

\* hosts: without a registry, with and without a factory value; with a
\* registry that has the value
ResolveHosts(in) ==
  { [host |-> UnixHost, registry |-> EmptyRegistry],
    [host |-> [UnixHost EXCEPT !.factoryIni = FactoryIni(in)],
     registry |-> EmptyRegistry],
    [host |-> WindowsHost, registry |-> RegistryWith(in)] }

InitResolve ==
  /\ input \in ResolveInputs
  /\ applicationNames \in ResolveAliases
  /\ \E h \in ResolveHosts(input) : host = h.host /\ registry = h.registry
  /\ env \in ResolveEnvs(input)
  /\ disk \in ResolveDisks(input)
  /\ adminMode = FALSE
  /\ initStartupConfig = PrivateSetup
  /\ Constructed

TryInput ==
  /\ calls = 0
  /\ input.op = "TryGetConfigValue"
  /\ TryGetConfigValue(input.sectionName, input.valueName, input.callback)

GetInput ==
  /\ calls = 0
  /\ input.op = "GetConfigValue"
  /\ GetConfigValue(input.sectionName, input.valueName, input.default, input.callback)

NextResolve == TryInput \/ GetInput

SpecResolve == InitResolve /\ [][NextResolve]_vars

-----------------------------------------------------------------------------
(* A session in use: calls of Expand, GetConfigValue and SetConfigValue,   *)
(* one after the other                                                     *)

MaxCalls == 2

Sections == { MIKTEX_CONFIG_SECTION_NONE, SectionS }

Names == { NameA, CFG_MACRO_NAME_ENGINE }

\* values to set: a plain one, and one with an escape in it
SetValues == { <<"v">>, <<"$", "$", "w">> }

Aliases == { <<Tex>>, <<Tex, Miktex>> }

\* nothing set; the environment variable of tag tex for [S]A set
Envs ==
  { FromPairs({}),
    FromPairs({ <<AppEnvVarName(Tex, SectionS, NameA), <<"e">> >> }) }

\* no file; tex.ini with [S]A; miktex.ini with [Core]NoRegistry
Disks ==
  { NoFiles,
    WithFile(NoFiles, 1, Tex, FromPairs({ <<CfgKey(SectionS, NameA), <<"f", "t">> >> })),
    WithFile(NoFiles, 1, Miktex,
             FromPairs({ <<CfgKey(MIKTEX_CONFIG_SECTION_CORE,
                                  MIKTEX_CONFIG_VALUE_NO_REGISTRY), <<"t">> >> })) }

Init ==
  /\ host \in { UnixHost, WindowsHost }
  /\ applicationNames \in Aliases
  /\ env \in Envs
  /\ registry = EmptyRegistry
  /\ disk \in Disks
  /\ adminMode = FALSE
  /\ initStartupConfig = PrivateSetup
  /\ input = [op |-> "none"]
  /\ Constructed

ExpandCall ==
  /\ calls < MaxCalls
  /\ Expand(<<"$", "{", "A", "}">>, NoCallback)

GetCall ==
  /\ calls < MaxCalls
  /\ \E sectionName \in Sections, valueName \in Names :
       GetConfigValue(sectionName, valueName, NoneValue, NoCallback)

SetCall ==
  /\ calls < MaxCalls
  /\ \E sectionName \in Sections, valueName \in Names, value \in SetValues :
       SetConfigValue(sectionName, valueName, StringValue(value))

Next == ExpandCall \/ GetCall \/ SetCall

Spec == Init /\ [][Next]_vars

-----------------------------------------------------------------------------
(* The layer cache in use: lookups, SetConfigValue and SetAdminMode, in an *)
(* installation whose configuration files differ between the two modes     *)

MaxCacheCalls == 3

\* the application tag tex as a caller may spell it
TeX == <<"T", "e", "X">>

\* two tags that differ only in letter case; two different tags
CacheAliases == { <<TeX, Tex>>, <<Tex, Miktex>> }

\* [S]A looked up in the files; [S]B looked up in vain
CacheNames == { NameA, NameB }

\* tex.ini in the user's configuration root and in the common one
TwoModes ==
  WithFile(WithFile(NoFiles, 1, Tex,
                    FromPairs({ <<CfgKey(SectionS, NameA), <<"u">> >> })),
           2, Tex, FromPairs({ <<CfgKey(SectionS, NameA), <<"c">> >> }))

\* without and with a miktex.ini in the user's configuration root; with a
\* tex.ini in the third place of the search
CacheDisks ==
  { TwoModes,
    WithFile(TwoModes, 1, Miktex,
             FromPairs({ <<CfgKey(SectionS, NameB), <<"m">> >> })),
    WithFile(TwoModes, 3, Tex,
             FromPairs({ <<CfgKey(SectionS, NameA), <<"x">> >>,
                         <<CfgKey(Tex, NameB), <<"x", "b">> >> })) }

\* miktex_config_ini with a value for [S]B
CacheFactory == FromPairs({ <<CfgKey(SectionS, NameB), <<"f", "f">> >> })

\* the third place of the search is a root that is managed in no mode, or
\* a directory from which no root can be derived
CacheHosts ==
  { [UnixHost EXCEPT !.factoryIni = CacheFactory],
    [WindowsHost EXCEPT !.factoryIni = CacheFactory],
    [UnixHost EXCEPT !.factoryIni = CacheFactory, !.roots[3].derivable = FALSE] }

InitCache ==
  /\ host \in CacheHosts
  /\ applicationNames \in CacheAliases
  /\ env = FromPairs({})
  /\ registry = EmptyRegistry
  /\ disk \in CacheDisks
  /\ adminMode = FALSE
  /\ initStartupConfig \in { SharedSetup, PrivateSetup }
  /\ input = [op |-> "none"]
  /\ Constructed

CacheGet ==
  /\ calls < MaxCacheCalls
  /\ \E valueName \in CacheNames :
       GetConfigValue(SectionS, valueName, NoneValue, NoCallback)

CacheSet ==
  /\ calls < MaxCacheCalls
  /\ SetConfigValue(SectionS, NameA, StringValue(<<"v">>))

CacheMode ==
  /\ calls < MaxCacheCalls
  /\ \E newAdminMode \in BOOLEAN, force \in BOOLEAN :
       SetAdminMode(newAdminMode, force)

NextCache == CacheGet \/ CacheSet \/ CacheMode

SpecCache == InitCache /\ [][NextCache]_vars

-----------------------------------------------------------------------------
(* The same calls on an installation one of whose configuration files       *)
(* cannot be parsed                                                        *)

\* tex.ini of the common root, read first; tex.ini of the user's root, read
\* last; miktex.ini of the user's root
BrokenFiles == { {<<2, Tex>>}, {<<1, Tex>>}, {<<1, Miktex>>} }

BrokenHosts ==
  { [UnixHost EXCEPT !.factoryIni = CacheFactory, !.unreadable = u] :
      u \in BrokenFiles }

InitBroken ==
  /\ host \in BrokenHosts
  /\ applicationNames \in CacheAliases
  /\ env = FromPairs({})
  /\ registry = EmptyRegistry
  /\ disk \in CacheDisks
  /\ adminMode = FALSE
  /\ initStartupConfig \in { SharedSetup, PrivateSetup }
  /\ input = [op |-> "none"]
  /\ Constructed

SpecBroken == InitBroken /\ [][NextCache]_vars

-----------------------------------------------------------------------------
(* The same calls on a session in use: file searches, which are not part   *)
(* of this model, may have registered file types and loaded the file name  *)
(* databases of the roots                                                  *)

\* no file type registered; the file type of TeX input files registered
FileTypeTables == { {}, {Tex} }

\* no file name database loaded; those of the two configuration roots loaded
LoadedDatabases == { {}, {1, 2} }

InitMode ==
  /\ host = [UnixHost EXCEPT !.factoryIni = CacheFactory]
  /\ applicationNames = <<Tex, Miktex>>
  /\ env = FromPairs({})
  /\ registry = EmptyRegistry
  /\ disk = TwoModes
  /\ adminMode = FALSE
  /\ initStartupConfig \in { SharedSetup, PrivateSetup }
  /\ input = [op |-> "none"]
  /\ configurationSettings = [k \in {} |-> EmptyCfg]
  /\ valuesBeingExpanded = {}
  /\ fileTypes \in FileTypeTables
  /\ filenameDatabase \in LoadedDatabases
  /\ calls = 0
  /\ last = Initial

SpecMode == InitMode /\ [][NextCache]_vars

-----------------------------------------------------------------------------
(* One call of GetShellCommandMode, by a user and by the administrator,    *)
(* where the factory settings give, or do not give, the shell command mode *)
(* and the permission for the administrator                                *)

\* the name of an environment variable that holds a mode
NameM == <<"M">>

\* the four modes; one in small letters; a text that is no mode; the empty
\* text; a reference to the variable M
ModeTexts ==
  { Forbidden, Query, Restricted, Unrestricted, MakeLower(Unrestricted),
    <<"x">>, <<>>, <<"$", "M">> }

\* spellings of true and false, and a text that is neither
AllowTexts == { StrTrue, StrFalse, <<"t">>, <<"0">>, <<"x">> }

\* the entries of name under [Core]: none, or one with a text of texts
CoreEntries(name, texts) ==
  { {} } \cup { { <<CfgKey(MIKTEX_CONFIG_SECTION_CORE, name), x>> } : x \in texts }

ShellSettings ==
  { FromPairs(m \cup a) :
      m \in CoreEntries(MIKTEX_CONFIG_VALUE_SHELLCOMMANDMODE, ModeTexts),
      a \in CoreEntries(MIKTEX_CONFIG_VALUE_ALLOW_UNRESTRICTED_SUPER_USER, AllowTexts) }

ShellHosts ==
  { [UnixHost EXCEPT !.factoryIni = ini, !.runningAsAdministrator = r] :
      ini \in ShellSettings, r \in BOOLEAN }

InitShell ==
  /\ host \in ShellHosts
  /\ applicationNames = <<Tex>>
  /\ env = FromPairs({ <<NameM, Unrestricted>> })
  /\ registry = EmptyRegistry
  /\ disk = NoFiles
  /\ adminMode = FALSE
  /\ initStartupConfig = PrivateSetup
  /\ input = [op |-> "GetShellCommandMode"]
  /\ Constructed

ShellInput == calls = 0 /\ GetShellCommandMode

NextShell == ShellInput

SpecShell == InitShell /\ [][NextShell]_vars

-----------------------------------------------------------------------------
(* One call of SetConfigValue on a host with a registry: portable or not,  *)
(* with or without a configuration file in the configuration root, with or *)
(* without the no-registry flag set in a file of another root              *)

\* a setup with the registry; a portable one; one built without
\* USE_WINDOWS_REGISTRY
SetHosts ==
  { WindowsHost,
    [WindowsHost EXCEPT !.portable = TRUE],
    [WindowsHost EXCEPT !.useWindowsRegistry = FALSE] }

\* miktex.ini with the no-registry flag set to value
FlagIni(value) ==
  FromPairs({ <<CfgKey(MIKTEX_CONFIG_SECTION_CORE, MIKTEX_CONFIG_VALUE_NO_REGISTRY),
                value>> })

\* no file; miktex.ini in the user's configuration root, without and with
\* the value that is set; miktex.ini in the common configuration root with
\* the flag set, and with the flag cleared
SetDisks ==
  { NoFiles,
    WithFile(NoFiles, 1, Miktex, FromPairs({ <<CfgKey(SectionS, NameB), <<"m">> >> })),
    WithFile(WithFile(NoFiles, 1, Miktex,
                      FromPairs({ <<CfgKey(SectionS, NameB), <<"m">> >>,
                                  <<CfgKey(SectionS, NameA), <<"o">> >> })),
             1, Tex, FromPairs({ <<CfgKey(SectionS, NameB), <<"t">> >> })),
    WithFile(NoFiles, 2, Miktex, FlagIni(StrTrue)),
    WithFile(NoFiles, 2, Miktex, FlagIni(StrFalse)) }

SetInputs == [sectionName : Sections, valueName : {NameA}, value : SetValues]

InitSet ==
  /\ host \in SetHosts
  /\ applicationNames \in Aliases
  /\ env \in Envs
  /\ registry = EmptyRegistry
  /\ disk \in SetDisks
  /\ adminMode \in BOOLEAN
  /\ initStartupConfig = IF adminMode THEN SharedSetup ELSE PrivateSetup
  /\ input \in SetInputs
  /\ Constructed

SetInput ==
  /\ calls = 0
  /\ SetConfigValue(input.sectionName, input.valueName, StringValue(input.value))

NextSet == SetInput

SpecSet == InitSet /\ [][NextSet]_vars

-----------------------------------------------------------------------------
(* One call of ToSafeCommandLine or ExamineCommandLine on a command line   *)
(* drawn from all short strings, on both platforms, where f is the one     *)
(* command the configuration allows                                        *)

MaxLineLen == 4

CommandF == <<"f">>

LineAlphabet == {"f", "x", Space, DoubleQuote, SingleQuote, "="}

\* foo --opt="a b"
FooOpt ==
  <<"f", "o", "o", Space, "-", "-", "o", "p", "t", "=", DoubleQuote, "a", Space,
    "b", DoubleQuote>>

\* command lines longer than MaxLineLen: a quoted argument after a key, a
\* quoted argument followed by another, a closing mark followed by a
\* character, a single quote inside a quoted argument, a tab
LongLines ==
  { FooOpt,
    <<"f", Space, "x", "=", DoubleQuote, "x", Space, "x", DoubleQuote>>,
    <<"f", Space, DoubleQuote, "x", DoubleQuote, Space, "x">>,
    <<"f", Space, DoubleQuote, "x", DoubleQuote, "x">>,
    <<"f", Space, DoubleQuote, "x", SingleQuote, DoubleQuote>>,
    <<"x", Space, DoubleQuote, "x", DoubleQuote, "x">>,
    <<"f", Tab, "x", Tab>>,
    <<"F", Space, "x">> }

CommandLines == StringsUpTo(LineAlphabet, MaxLineLen) \cup LongLines

\* miktex_config_ini with the list of the allowed commands: f, foo
AllowedIni ==
  FromPairs({ <<CfgKey(MIKTEX_CONFIG_SECTION_CORE,
                       MIKTEX_CONFIG_VALUE_ALLOWEDSHELLCOMMANDS),
                <<"f", ";", "f", "o", "o">> >> })

ExamineHosts ==
  { [UnixHost EXCEPT !.factoryIni = AllowedIni],
    [WindowsHost EXCEPT !.factoryIni = AllowedIni] }

InitExamine ==
  /\ host \in ExamineHosts
  /\ applicationNames = <<Tex, Miktex>>
  /\ env = FromPairs({})
  /\ registry = EmptyRegistry
  /\ disk = NoFiles
  /\ adminMode = FALSE
  /\ initStartupConfig = PrivateSetup
  /\ input \in [op : {"ToSafeCommandLine", "ExamineCommandLine"}, line : CommandLines]
  /\ Constructed

SafeInput ==
  /\ calls = 0
  /\ input.op = "ToSafeCommandLine"
  /\ SafeCommandLine(input.line)

ExamineInput ==
  /\ calls = 0
  /\ input.op = "ExamineCommandLine"
  /\ ExamineCommandLine(input.line)

NextExamine == SafeInput \/ ExamineInput

SpecExamine == InitExamine /\ [][NextExamine]_vars

-----------------------------------------------------------------------------
(* One call of AppendToEnvVarName on a part drawn from all short strings   *)

MaxPartLen == 3

\* a lowercase letter, an uppercase letter, digits, and characters that are
\* neither
EnvNameAlphabet == {"m", "Y", "1", "9", "-", ".", "_"}

MyApp1 == <<"m", "y", "-", "a", "p", "p", ".", "1">>

EnvNameInputs ==
  [name : { <<>>, MIKTEX_ENV_PREFIX_ },
   part : StringsUpTo(EnvNameAlphabet, MaxPartLen) \cup {MyApp1}]

InitEnvName ==
  /\ host = UnixHost
  /\ applicationNames = <<Tex>>
  /\ env = FromPairs({})
  /\ registry = EmptyRegistry
  /\ disk = NoFiles
  /\ adminMode = FALSE
  /\ initStartupConfig = PrivateSetup
  /\ input \in EnvNameInputs
  /\ Constructed

\* name is input.name before the call and last.str after it
AppendInput ==
  /\ calls = 0
  /\ last' = [last EXCEPT !.op = "AppendToEnvVarName",
                          !.str = AppendToEnvVarName(input.name, input.part)]
  /\ calls' = calls + 1
  /\ UNCHANGED <<host, applicationNames, env, registry, disk, adminMode,
                 initStartupConfig, configurationSettings, valuesBeingExpanded,
                 fileTypes, filenameDatabase, input>>

NextEnvName == AppendInput

SpecEnvName == InitEnvName /\ [][NextEnvName]_vars

-----------------------------------------------------------------------------
(* Vocabulary of the properties                                            *)

\* the session state the last call started from
PreCtx == Ctx(last.pre.cs, last.pre.vbe, last.pre.registry, <<>>)

\* the names a string refers to: its $NAME and ${NAME} tokens, read left to
\* right, where $$ is an escape and a lone $ is text
RECURSIVE RefNamesFrom(_, _)
RefNamesFrom(s, i) ==
  IF i > Len(s) THEN {}
  ELSE IF s[i] # "$" THEN RefNamesFrom(s, i + 1)
  ELSE IF At(s, i + 1) = "$" THEN RefNamesFrom(s, i + 2)
  ELSE IF At(s, i + 1) = "{"
  THEN IF EndOfBraced(s, i + 2) > Len(s) THEN {}
       ELSE {Slice(s, i + 2, EndOfBraced(s, i + 2) - 1)}
              \cup RefNamesFrom(s, EndOfBraced(s, i + 2) + 1)
  ELSE IF IsAlphaAscii(At(s, i + 1)) \/ At(s, i + 1) = "_"
  THEN {Slice(s, i + 1, EndOfName(s, i + 1) - 1)}
         \cup RefNamesFrom(s, EndOfName(s, i + 1))
  ELSE RefNamesFrom(s, i + 1)

RefNames(s) == RefNamesFrom(s, 1)

\* the names the configuration's value of valueName (section none) refers to
ChainRefs(valueName) ==
  IF ResolveRaw(MIKTEX_CONFIG_SECTION_NONE, valueName, PreCtx).have
  THEN RefNames(ResolveRaw(MIKTEX_CONFIG_SECTION_NONE, valueName, PreCtx).value)
  ELSE {}

\* the names the value of valueName refers to, the callback asked first
LookupRefs(valueName, callback) ==
  IF CallbackHas(callback, valueName) THEN RefNames(callback.values[valueName])
  ELSE ChainRefs(valueName)

\* the names reached from the names of frontier through ChainRefs
RECURSIVE ChainReach(_, _)
ChainReach(frontier, seen) ==
  IF frontier \subseteq seen THEN seen
  ELSE ChainReach(UNION { ChainRefs(n) : n \in frontier \ seen }, seen \cup frontier)

\* valueName's configured value refers to valueName again, directly or
\* through other configured values
ChainCyclic(valueName) == valueName \in ChainReach(ChainRefs(valueName), {})

\* the same with the callback asked first for every name
RECURSIVE LookupReach(_, _, _)
LookupReach(frontier, seen, callback) ==
  IF frontier \subseteq seen THEN seen
  ELSE LookupReach(UNION { LookupRefs(n, callback) : n \in frontier \ seen },
                   seen \cup frontier, callback)

LookupCyclic(valueName, callback) ==
  valueName \in LookupReach(LookupRefs(valueName, callback), {}, callback)

-----------------------------------------------------------------------------
(* C1: a self-referential value makes Expand abort                         *)

\* C1 as stated: whenever a name the expanded string refers to resolves,
\* through the callback or through the configuration, to a value that
\* refers to the name again, Expand aborts with a fatal error.
C1_AnyCycleIsFatal ==
  last.op = "Expand" =>
    \A n \in RefNames(last.str) : LookupCyclic(n, last.callback) => last.thrown

\* C1: when a name the expanded string refers to is not supplied by the
\* callback and resolves through the configuration to a value that refers
\* to the name again, directly or through other configured values, Expand
\* aborts with a fatal error and returns no value.
C1_ChainCycleIsFatal ==
  last.op = "Expand" =>
    \A n \in RefNames(last.str) :
      (~CallbackHas(last.callback, n) /\ ChainCyclic(n))
        => (last.thrown /\ last.result = NoneValue)

\* a cycle through two configured values was expanded, and aborted
C1_Witness ==
  /\ last.op = "Expand"
  /\ last.str = <<"$", "A">>
  /\ ~CallbackHas(last.callback, NameA)
  /\ ChainRefs(NameA) = {NameB}
  /\ ChainRefs(NameB) = {NameA}
  /\ last.thrown

-----------------------------------------------------------------------------
(* C2: the set of values being expanded between top-level calls            *)

\* C2: valuesBeingExpanded is empty before and after every top-level call,
\* the calls that abort with a fatal error included.
C2_FrameEmptyBetweenCalls == valuesBeingExpanded = {}

-----------------------------------------------------------------------------
(* C5: a reference that cannot be resolved                                 *)

\* s is one reference ${NAME}, and nothing else
IsBracedRef(s) ==
  /\ Len(s) >= 4
  /\ s[1] = "$"
  /\ s[2] = "{"
  /\ EndOfBraced(s, 3) = Len(s)

\* s is one reference $NAME, and nothing else
IsPlainRef(s) ==
  /\ Len(s) >= 2
  /\ s[1] = "$"
  /\ (IsAlphaAscii(s[2]) \/ s[2] = "_")
  /\ EndOfName(s, 2) = Len(s) + 1

\* the NAME of a string that is one reference
RefName(s) == IF s[2] = "{" THEN Slice(s, 3, Len(s) - 1) ELSE Slice(s, 2, Len(s))

\* neither the callback nor the configuration has a value for valueName
Unresolvable(valueName, callback) ==
  /\ ~CallbackHas(callback, valueName)
  /\ ~ResolveRaw(MIKTEX_CONFIG_SECTION_NONE, valueName, PreCtx).have

\* C5: when the expanded string is one reference, $NAME or ${NAME}, and
\* neither the callback nor the configuration has a value for NAME, Expand
\* returns the string unchanged, character for character, whatever
\* characters NAME is made of.
C5_UnresolvedIsVerbatim ==
  ( /\ last.op = "Expand"
    /\ IsBracedRef(last.str) \/ IsPlainRef(last.str)
    /\ Unresolvable(RefName(last.str), last.callback) )
  => (~last.thrown /\ last.result = StringValue(last.str))

-----------------------------------------------------------------------------
(* C6: the escape $$                                                       *)

\* the position of the first dollar sign of s
FirstDollar(s) == CHOOSE k \in 1..Len(s) : s[k] = "$" /\ \A j \in 1..(k - 1) : s[j] # "$"

\* the outcome of expanding the text of s from position k on, in the session
\* state the last call started from
RestExpanded(s, k, callback) ==
  ExpandedValue(ExpandValues(Slice(s, k, Len(s)), callback, PreCtx))

\* C6: when the first dollar sign of the expanded string is followed by a
\* dollar sign, Expand emits the text before it, one dollar sign, and the
\* expansion of the text after the two dollar signs; the escape itself
\* consults no source. In particular "$$" yields "$", and "$${A}" yields
\* "${A}" without A being looked up.
C6_EscapeEmitsOneDollar ==
  ( /\ last.op = "Expand"
    /\ "$" \in Range(last.str)
    /\ At(last.str, FirstDollar(last.str) + 1) = "$" )
  => LET k == FirstDollar(last.str)
         rest == RestExpanded(last.str, k + 2, last.callback)
     IN  /\ last.thrown = rest.thrown
         /\ last.log = rest.ctx.log
         /\ ~last.thrown =>
              last.result = StringValue(Slice(last.str, 1, k - 1) \o <<"$">>
                                          \o rest.result.str)
         /\ last.str = <<"$", "$">> => last.result = StringValue(<<"$">>)
         /\ last.str = <<"$", "$", "{", "A", "}">> =>
              /\ last.result = StringValue(<<"$", "{", "A", "}">>)
              /\ last.log = <<>>

\* "$${A}" was expanded where A has a value, and no source was consulted
C6_Witness ==
  /\ last.op = "Expand"
  /\ last.str = <<"$", "$", "{", "A", "}">>
  /\ ~Unresolvable(NameA, last.callback)
  /\ last.result = StringValue(<<"$", "{", "A", "}">>)
  /\ last.log = <<>>

-----------------------------------------------------------------------------
(* C7: a string without a dollar sign                                      *)

\* C7: for a string without a dollar sign Expand returns the string
\* unchanged, consults no source, and leaves valuesBeingExpanded and
\* configurationSettings as they were.
C7_NoDollarRoundTrip ==
  (last.op = "Expand" /\ "$" \notin Range(last.str))
  => /\ ~last.thrown
     /\ last.result = StringValue(last.str)
     /\ last.log = <<>>
     /\ valuesBeingExpanded = last.pre.vbe
     /\ configurationSettings = last.pre.cs

\* "{A}" was expanded where A has a value
C7_Witness ==
  /\ last.op = "Expand"
  /\ last.str = <<"{", "A", "}">>
  /\ ~Unresolvable(NameA, last.callback)
  /\ last.result = StringValue(<<"{", "A", "}">>)

-----------------------------------------------------------------------------
(* C8: what is spliced in for a reference that resolves                    *)

\* the value the callback or else the configuration holds for valueName, as
\* it is stored
StoredValue(valueName, callback) ==
  IF CallbackHas(callback, valueName) THEN callback.values[valueName]
  ELSE ResolveRaw(MIKTEX_CONFIG_SECTION_NONE, valueName, PreCtx).value

\* the outcome of expanding the configuration's value of valueName while
\* valueName is being expanded
ConfiguredExpanded(valueName) ==
  ExpandedValue(
    ExpandValues(ResolveRaw(MIKTEX_CONFIG_SECTION_NONE, valueName, PreCtx).value,
                 NoCallback, InsertBeingExpanded(PreCtx, valueName)))

\* C8 as stated: when the expanded string is one reference and NAME has a
\* value, from the callback or from the configuration, an Expand that
\* returns returns that value as it is stored.
C8_ResolvedIsVerbatim ==
  ( /\ last.op = "Expand"
    /\ IsBracedRef(last.str) \/ IsPlainRef(last.str)
    /\ ~Unresolvable(RefName(last.str), last.callback)
    /\ ~last.thrown )
  => last.result = StringValue(StoredValue(RefName(last.str), last.callback))

\* C8: when the expanded string is one reference and the callback has a
\* value for NAME, Expand returns that value as it is; when the callback has
\* none and the configuration has one, Expand returns the values-only
\* expansion of the configured value, and aborts when that expansion aborts.
C8_CallbackVerbatimChainExpanded ==
  ( /\ last.op = "Expand"
    /\ IsBracedRef(last.str) \/ IsPlainRef(last.str)
    /\ ~Unresolvable(RefName(last.str), last.callback) )
  => IF CallbackHas(last.callback, RefName(last.str))
     THEN /\ ~last.thrown
          /\ last.result = StringValue(last.callback.values[RefName(last.str)])
     ELSE /\ last.thrown = ConfiguredExpanded(RefName(last.str)).thrown
          /\ last.result = ConfiguredExpanded(RefName(last.str)).result

\* "$B" was expanded where B is configured as "${A}y" and A as "x$$": the
\* result is "x$y"; and "$A" was expanded with a callback: the result is the
\* callback's value
C8_Witness ==
  /\ last.op = "Expand"
  /\ \/ /\ last.str = <<"$", "B">>
        /\ ~CallbackHas(last.callback, NameB)
        /\ StoredValue(NameB, last.callback) = <<"$", "{", "A", "}", "y">>
        /\ last.result = StringValue(<<"x", "$", "y">>)
     \/ /\ last.str = <<"$", "A">>
        /\ CallbackHas(last.callback, NameA)
        /\ last.result = StringValue(<<"$", "A", "$", "{", "B", "}">>)

-----------------------------------------------------------------------------
(* C3: the environment variable of an application tag                      *)

\* the last call resolved a value: TryGetConfigValue or GetConfigValue
Resolved == last.op \in {"TryGetConfigValue", "GetConfigValue"}

\* the name is the one of the first battery of special values
IsFirstBattery(valueName) == EqualsIgnoreCase(valueName, CFG_MACRO_NAME_ENGINE)

\* the section the sources of application tag idx are asked for
TagSection(idx) == DefaultSectionName(last.sectionName, applicationNames[idx])

\* the environment variable of application tag idx for the resolved value
TagEnvVarName(idx) ==
  AppEnvVarName(applicationNames[idx], TagSection(idx), last.valueName)

\* the configuration files of application tag idx hold the resolved value
TagLayerHas(idx) ==
  CfgHas(ReadAllConfigFiles(MakeLower(applicationNames[idx]), EmptyCfg),
         TagSection(idx), last.valueName)

\* the registry holds the resolved value under the section of tag idx
TagRegistryHas(idx) ==
  /\ host.isWindows
  /\ ~host.portable
  /\ RegistryHas(last.pre.registry, adminMode, TagSection(idx), last.valueName)

\* a source of application tag idx has the resolved value
TagHas(idx) ==
  EnvHas(env, TagEnvVarName(idx)) \/ TagRegistryHas(idx) \/ TagLayerHas(idx)

\* the outcome of a call that hands back the values-only expansion of v
ExpansionOf(v) == ExpandedValue(ExpandValues(v, last.callback, PreCtx))

\* the last call ended as a call that hands back the expansion of v ends
ReturnedExpansionOf(v) ==
  /\ last.thrown = ExpansionOf(v).thrown
  /\ last.result = ExpansionOf(v).result

\* C3 as stated: whenever the environment variable of some application tag
\* of the list is set for the resolved value, whatever the position of the
\* tag, the resolution returns (the expansion of) such an environment value
\* and not a value of a configuration file.
C3_AppEnvBeatsFiles ==
  ( /\ Resolved
    /\ ~IsFirstBattery(last.valueName)
    /\ \E idx \in DOMAIN applicationNames : EnvHas(env, TagEnvVarName(idx)) )
  => \E idx \in DOMAIN applicationNames :
       /\ EnvHas(env, TagEnvVarName(idx))
       /\ ReturnedExpansionOf(env[TagEnvVarName(idx)])

\* C3: when the environment variable of the application tag at position idx
\* is set for the resolved value, the name is not the engine built-in, and
\* no tag before idx has the value in its environment variable, in the
\* registry or in its configuration files, the resolution returns the
\* expansion of the environment value, whatever the configuration files of
\* tag idx and of the later tags hold.
C3_AppEnvBeatsOwnAndLaterFiles ==
  Resolved =>
    \A idx \in DOMAIN applicationNames :
      ( /\ ~IsFirstBattery(last.valueName)
        /\ EnvHas(env, TagEnvVarName(idx))
        /\ \A j \in 1..(idx - 1) : ~TagHas(j) )
      => ReturnedExpansionOf(env[TagEnvVarName(idx)])

\* the second tag's environment variable won over the second tag's file
C3_Witness ==
  /\ last.op = "TryGetConfigValue"
  /\ Len(applicationNames) = 2
  /\ ~TagHas(1)
  /\ EnvHas(env, TagEnvVarName(2))
  /\ TagLayerHas(2)
  /\ last.result = StringValue(env[TagEnvVarName(2)])

-----------------------------------------------------------------------------
(* C4: the sources after the application tags, without a registry          *)

Found(v) == [have |-> TRUE, value |-> v]

NotFound == [have |-> FALSE, value |-> <<>>]

\* the second battery of special values on a host that is not Windows
SecondBattery(valueName) ==
  IF EqualsIgnoreCase(valueName, CFG_MACRO_NAME_BINDIR) THEN Found(host.binDir)
  ELSE IF EqualsIgnoreCase(valueName, CFG_MACRO_NAME_PROGNAME)
  THEN Found(applicationNames[1])
  ELSE IF EqualsIgnoreCase(valueName, CFG_MACRO_NAME_LOCALFONTDIRS)
  THEN Found(host.localFontDirs)
  ELSE IF EqualsIgnoreCase(valueName, CFG_MACRO_NAME_PSFONTDIRS) THEN host.psFontDirs
  ELSE IF EqualsIgnoreCase(valueName, CFG_MACRO_NAME_TTFDIRS) THEN host.ttfDirs
  ELSE IF EqualsIgnoreCase(valueName, CFG_MACRO_NAME_OTFDIRS) THEN host.otfDirs
  ELSE NotFound

\* the first hit among the sources that are not scoped by application tag
FirstUnscopedHit(sectionName, valueName) ==
  IF sectionName # <<>> /\ EnvHas(env, SectionEnvVarName(sectionName, valueName))
  THEN Found(env[SectionEnvVarName(sectionName, valueName)])
  ELSE IF EnvHas(env, PlainEnvVarName(valueName))
  THEN Found(env[PlainEnvVarName(valueName)])
  ELSE IF sectionName = <<>> /\ EnvHas(env, valueName)
  THEN Found(env[valueName])
  ELSE IF SecondBattery(valueName).have
  THEN Found(SecondBattery(valueName).value)
  ELSE IF CfgKey(sectionName, valueName) \in DOMAIN host.factoryIni
  THEN Found(host.factoryIni[CfgKey(sectionName, valueName)])
  ELSE NotFound

\* C4: on a host without a registry, when the name is not the engine
\* built-in and no application tag has the value, the resolution hands back
\* (the expansion of) the first hit in the order: MIKTEX_<SECTION>_<NAME> if
\* the section is not empty, MIKTEX_<NAME>, <NAME> if the section is empty,
\* the second battery of special values, the factory settings; a special
\* value that cannot be computed falls through to the factory settings; and
\* the resolution reports not-found, without an error, exactly when none of
\* them has a value.
C4_UnscopedOrder ==
  ( /\ last.op = "TryGetConfigValue"
    /\ ~host.isWindows
    /\ ~IsFirstBattery(last.valueName)
    /\ \A idx \in DOMAIN applicationNames : ~TagHas(idx) )
  => IF FirstUnscopedHit(last.sectionName, last.valueName).have
     THEN ReturnedExpansionOf(FirstUnscopedHit(last.sectionName, last.valueName).value)
     ELSE ~last.thrown /\ last.result = NoneValue

\* ttfdirs could not be computed and the factory settings had a value
C4_Witness ==
  /\ last.op = "TryGetConfigValue"
  /\ ~host.isWindows
  /\ last.valueName = CFG_MACRO_NAME_TTFDIRS
  /\ ~host.ttfDirs.have
  /\ \A idx \in DOMAIN applicationNames : ~TagHas(idx)
  /\ DOMAIN env = {}
  /\ CfgKey(last.sectionName, last.valueName) \in DOMAIN host.factoryIni
  /\ last.result = StringValue(host.factoryIni[CfgKey(last.sectionName,
                                                      last.valueName)])

-----------------------------------------------------------------------------
(* C9: GetConfigValue                                                      *)

\* the value as the sources hold it, before expansion
RawValue == ResolveRaw(last.sectionName, last.valueName, PreCtx)

\* C9: GetConfigValue returns, on a hit, a String that is the values-only
\* expansion of the raw value, expanded once; on a miss with a default that
\* is not of type None, the String that is the expansion of the default's
\* string form; on a miss without a default, a value of type None, which is
\* not the empty String, and no error.
C9_GetConfigValue ==
  last.op = "GetConfigValue" =>
    IF RawValue.have
    THEN /\ ReturnedExpansionOf(RawValue.value)
         /\ ~last.thrown => last.result.type = "String"
    ELSE IF last.default.type # "None"
    THEN /\ ReturnedExpansionOf(last.default.str)
         /\ ~last.thrown => last.result.type = "String"
    ELSE /\ ~last.thrown
         /\ last.result = NoneValue
         /\ last.result # StringValue(<<>>)

\* MIKTEX_<NAME> was the hit, with the value "p$$$$": the result is "p$$"
C9_Witness ==
  /\ last.op = "GetConfigValue"
  /\ RawValue.have
  /\ RawValue.value = <<"p", "$", "$", "$", "$">>
  /\ last.result = StringValue(<<"p", "$", "$">>)

-----------------------------------------------------------------------------
(* C10: a value that was set, and is read                                  *)

\* the last call reads the value the call before it wrote to the
\* configuration file
GetAfterSet ==
  /\ last.op = "GetConfigValue"
  /\ last.prev.op = "SetConfigValue"
  /\ ~last.prev.thrown
  /\ <<"write", MIKTEX_INI_BASE>> \in Range(last.prev.log)
  /\ last.prev.sectionName = last.sectionName
  /\ last.prev.valueName = last.valueName

\* no environment variable the resolution may read is set, and the registry
\* has no value for the key
NotShadowed ==
  /\ \A idx \in DOMAIN applicationNames :
       ~EnvHas(env, TagEnvVarName(idx)) /\ ~TagRegistryHas(idx)
  /\ ~EnvHas(env, SectionEnvVarName(last.sectionName, last.valueName))
  /\ ~EnvHas(env, PlainEnvVarName(last.valueName))
  /\ ~EnvHas(env, last.valueName)
  /\ ~RegistryHas(last.pre.registry, adminMode, last.sectionName, last.valueName)

\* the application tag miktex is at position idx of the list
IsMiktexTag(idx) == MakeLower(applicationNames[idx]) = MIKTEX_INI_BASE

\* C10 as stated: after SetConfigValue(section, name, v) has returned on the
\* file path, a GetConfigValue(section, name) that follows at once returns
\* v, for every section, list of application tags and value, provided that
\* no environment variable and no registry entry shadows the key.
C10_SetThenGet ==
  (GetAfterSet /\ NotShadowed)
  => (~last.thrown /\ last.result = StringValue(last.prev.str))

\* C10: after SetConfigValue(section, name, v) has returned on the file
\* path, a GetConfigValue(section, name) that follows at once returns the
\* values-only expansion of v (v itself when v has no dollar sign), provided
\* that the section is not empty, the name is not the engine built-in, the
\* tag miktex is in the list of application tags, no tag before it has the
\* key in its configuration files, and no environment variable and no
\* registry entry shadows the key.
C10_SetThenGetExpanded ==
  (GetAfterSet /\ NotShadowed)
  => \A idx \in DOMAIN applicationNames :
       ( /\ last.sectionName # <<>>
         /\ ~IsFirstBattery(last.valueName)
         /\ IsMiktexTag(idx)
         /\ \A j \in 1..(idx - 1) : ~TagLayerHas(j) )
       => /\ ReturnedExpansionOf(last.prev.str)
          /\ "$" \notin Range(last.prev.str) =>
               (~last.thrown /\ last.result = StringValue(last.prev.str))

\* [S]A was set to "$$w" and read as "$w" through the tags tex and miktex
C10_Witness ==
  /\ GetAfterSet
  /\ NotShadowed
  /\ last.sectionName = SectionS
  /\ last.valueName = NameA
  /\ applicationNames = <<Tex, Miktex>>
  /\ ~TagLayerHas(1)
  /\ last.prev.str = <<"$", "$", "w">>
  /\ last.result = StringValue(<<"$", "w">>)

-----------------------------------------------------------------------------
(* Vocabulary of the cache properties                                      *)

\* the last call is a lookup: it changes no file and no mode
IsLookup == last.op \in {"GetConfigValue", "TryGetConfigValue", "Expand"}

\* the keys of the layers the last call read from the files, in order
ReadKeys == SelectSeq(last.log, LAMBDA e : e[1] = "read")

\* the application layers the last call asked for a value
ConsultedKeys ==
  { e[2] : e \in { x \in Range(last.log) : x[1] = "cfg" } } \ {FactorySettingsKey}

\* the keys of the application layers in a cache
AppKeys(cs) == DOMAIN cs \ {FactorySettingsKey}

\* the layer the files give for a key in the current mode
FreshLayer(key) == ReadAllConfigFiles(key, EmptyCfg)

-----------------------------------------------------------------------------
(* C11: the layer cache is read-through.  A call reads the files of an     *)
(* application tag only if the cache has no layer under the lowercased tag, *)
(* and then once; a lookup that finds the layer cached uses it as it is     *)
(* and leaves it in the cache, so that two lookups with no invalidation     *)
(* between them read the files once; a lookup that asks a tag whose layer   *)
(* is not cached (never built, or dropped by an invalidation) reads the     *)
(* files again; the keys of the cache are lowercase, so that tags that      *)
(* differ only in letter case share one layer.                              *)
C11_LayerReadThrough ==
  /\ \A i \in DOMAIN ReadKeys :
       /\ ReadKeys[i][2] \notin DOMAIN last.pre.cs
       /\ \A j \in DOMAIN ReadKeys : ReadKeys[j] = ReadKeys[i] => j = i
  /\ \A k \in ConsultedKeys :
       k \notin DOMAIN last.pre.cs => <<"read", k>> \in Range(ReadKeys)
  /\ IsLookup =>
       \A k \in DOMAIN last.pre.cs :
         k \in DOMAIN configurationSettings /\ configurationSettings[k] = last.pre.cs[k]
  /\ \A k \in AppKeys(configurationSettings) :
       /\ k = MakeLower(k)
       /\ \E i \in DOMAIN applicationNames : k = MakeLower(applicationNames[i])
  /\ IsLookup /\ ~last.thrown =>
       \A k \in ConsultedKeys : k \in DOMAIN configurationSettings

\* a second lookup, by tags TeX and tex, served from the one layer the first
\* lookup built: nothing is read
C11_Witness ==
  /\ applicationNames = <<TeX, Tex>>
  /\ last.op = "GetConfigValue" /\ last.prev.op = "GetConfigValue"
  /\ last.prev.log # <<>> /\ <<"read", Tex>> \in Range(last.prev.log)
  /\ Len(ReadKeys) = 0
  /\ ConsultedKeys = {Tex}
  /\ AppKeys(configurationSettings) = {Tex}
  /\ last.result = StringValue(<<"u">>)

-----------------------------------------------------------------------------
(* C12: whenever SetAdminMode changes the flag, every cached application   *)
(* layer is dropped, and the first lookup after the change reads the layers *)
(* it asks from the files visible in the new mode and returns what a        *)
(* session with an empty cache returns, never a value of a layer built in   *)
(* the previous mode.                                                       *)

\* the last call was a SetAdminMode that changed the flag
ModeChanged == last.op = "SetAdminMode" /\ adminMode # last.pre.adminMode

\* the call before the last one was a SetAdminMode that changed the flag
AfterModeChange ==
  /\ last.prev.op = "SetAdminMode"
  /\ \E b \in BOOLEAN : Turning(b) \in Range(last.prev.log)

\* the outcome of the last lookup in a session that has nothing cached
UncachedOutcome ==
  GetConfigValueIn(last.sectionName, last.valueName, last.default, last.callback,
                   Ctx([k \in {} |-> EmptyCfg], last.pre.vbe, last.pre.registry, <<>>))

-----------------------------------------------------------------------------
(* C13: SetConfigValue and the layer cache                                 *)

\* the last call was a SetConfigValue that returned normally
SetReturned == last.op = "SetConfigValue" /\ ~last.thrown

\* the last call wrote the configuration file
WroteFile == <<"write", MIKTEX_INI_BASE>> \in Range(last.log)

\* the last call wrote the registry
WroteRegistry ==
  registry = RegistrySetValue(last.pre.registry, adminMode, last.sectionName,
                              last.valueName, last.str)

\* C13 as stated: after every SetConfigValue call that returns normally, on
\* the file-backed path and on the registry path alike, the layer cache is
\* empty.
C13_CacheEmptyAfterSet ==
  SetReturned => DOMAIN configurationSettings = {}

\* C13, amended: after a SetConfigValue call that returns normally on the
\* file-backed path the layer cache is empty; on the registry path no file
\* is written and the cache is not emptied: every layer found at entry is
\* still there, unchanged, next to the layers the call's own lookups built.
C13_CacheEmptyAfterFileSet ==
  /\ (SetReturned /\ WroteFile) => DOMAIN configurationSettings = {}
  /\ (SetReturned /\ ~WroteFile) =>
       /\ WroteRegistry /\ disk = last.pre.disk
       /\ \A k \in DOMAIN last.pre.cs :
            k \in DOMAIN configurationSettings
              /\ configurationSettings[k] = last.pre.cs[k]
       /\ \A k \in ConsultedKeys : k \in DOMAIN configurationSettings

\* a layer was cached when SetConfigValue wrote the file, and is gone
C13_Witness ==
  /\ SetReturned /\ WroteFile
  /\ Tex \in DOMAIN last.pre.cs
  /\ disk # last.pre.disk
  /\ DOMAIN configurationSettings = {}

-----------------------------------------------------------------------------
(* C14: the factory settings                                               *)

\* the factory settings are in a cache
HasFactory(cs) == FactorySettingsKey \in DOMAIN cs

\* the last call parsed miktex_config_ini
ParsedFactory == <<"parse", FactorySettingsKey>> \in Range(last.log)

\* C14 as stated: the factory settings are parsed at most once and never
\* modified or discarded afterwards, for any sequence of Get, Set and
\* SetAdminMode: a call that finds them in the session leaves them there,
\* unchanged, and a call does not parse them if they were parsed before.
C14_FactoryParsedOnce ==
  /\ HasFactory(last.pre.cs) =>
       /\ HasFactory(configurationSettings)
       /\ configurationSettings[FactorySettingsKey] = last.pre.cs[FactorySettingsKey]
  /\ ParsedFactory => FactorySettingsKey \notin last.prev.cached

\* C14, amended: the factory settings are never modified: whenever they are
\* in the session they are what miktex_config_ini says.  They are parsed
\* only by a call that does not find them in the session, and then once; a
\* lookup and a SetConfigValue on the registry path leave them in the
\* session.  A SetConfigValue on the file-backed path discards
\* them with the application layers, and the next lookup that reaches the
\* factory settings parses them again.
C14_FactoryParsedOncePerCache ==
  /\ HasFactory(configurationSettings) =>
       configurationSettings[FactorySettingsKey] = CfgRead(EmptyCfg, host.factoryIni)
  /\ ParsedFactory =>
       /\ ~HasFactory(last.pre.cs)
       /\ Cardinality({ i \in DOMAIN last.log :
                          last.log[i] = <<"parse", FactorySettingsKey>> }) = 1
  /\ (HasFactory(last.pre.cs)
        /\ (IsLookup \/ (last.op = "SetConfigValue" /\ ~WroteFile))) =>
       HasFactory(configurationSettings)
  /\ (last.op = "SetConfigValue" /\ WroteFile) => ~HasFactory(configurationSettings)
  /\ (IsLookup /\ ~last.thrown
        /\ \E e \in Range(last.log) : e[1] = "cfg" /\ e[2] = FactorySettingsKey) =>
       HasFactory(configurationSettings)

\* the factory settings were in the session, SetConfigValue wrote the file,
\* and the next lookup parses them again and finds the factory value
C14_Witness ==
  /\ last.op = "GetConfigValue" /\ last.valueName = NameB
  /\ last.prev.op = "SetConfigValue"
  /\ <<"write", MIKTEX_INI_BASE>> \in Range(last.prev.log)
  /\ FactorySettingsKey \in last.prev.cached
  /\ ParsedFactory
  /\ last.result = StringValue(<<"f", "f">>)

-----------------------------------------------------------------------------
(* C19: AppendToEnvVarName appends to name exactly the ASCII letters of    *)
(* part, uppercased, and its ASCII digits, in order, and drops every other  *)
(* character ("my-app.1" contributes "MYAPP1"); what it appends consists of *)
(* A-Z and 0-9 only, and appending the appended text again (to an empty     *)
(* name) gives the appended text.                                           *)

\* the last call was AppendToEnvVarName
Appended == last.op = "AppendToEnvVarName"

\* what the call added to name
AppendedText == Slice(last.str, Len(input.name) + 1, Len(last.str))

\* the letters and digits of part, in order
LettersAndDigits(part) ==
  SelectSeq(part, LAMBDA ch : ch \in Range(LowerLetters) \cup Range(UpperLetters) \cup Digits)

\* the uppercase of a letter, by its place in the alphabet
UpperOf(ch) ==
  IF \E i \in 1..26 : LowerLetters[i] = ch
  THEN UpperLetters[CHOOSE i \in 1..26 : LowerLetters[i] = ch]
  ELSE ch

C19_AppendsUppercasedAlnum ==
  Appended =>
    /\ Len(last.str) >= Len(input.name)
    /\ Slice(last.str, 1, Len(input.name)) = input.name
    /\ AppendedText = [i \in 1..Len(LettersAndDigits(input.part)) |->
                         UpperOf(LettersAndDigits(input.part)[i])]
    /\ \A i \in DOMAIN AppendedText :
         AppendedText[i] \in Range(UpperLetters) \cup Digits
    /\ AppendToEnvVarName(<<>>, AppendedText) = AppendedText
    /\ input.part = MyApp1 => AppendedText = <<"M", "Y", "A", "P", "P", "1">>

\* "my-app.1" appended to the prefix MIKTEX_
C19_Witness ==
  /\ Appended
  /\ input.name = MIKTEX_ENV_PREFIX_ /\ input.part = MyApp1
  /\ last.str = MIKTEX_ENV_PREFIX_ \o <<"M", "Y", "A", "P", "P", "1">>

-----------------------------------------------------------------------------
(* C20: where SetConfigValue writes on a platform with a registry          *)

\* the last call was SetConfigValue
WasSet == last.op = "SetConfigValue"

\* the configuration file was there when the call began
HadConfigFile == MIKTEX_INI_BASE \in DOMAIN last.pre.disk[ConfigRoot]

\* the resolution of the no-registry flag in the session the call found
NoRegistryFlag ==
  GetConfigValueIn(MIKTEX_CONFIG_SECTION_CORE, MIKTEX_CONFIG_VALUE_NO_REGISTRY,
                   BoolValue(~host.useWindowsRegistry), NoCallback, PreCtx)

\* the user has opted out of the registry / has not
OptedOut == ~NoRegistryFlag.thrown /\ NoRegistryFlag.result.str \in BoolSpellingsTrue

NotOptedOut == ~NoRegistryFlag.thrown /\ NoRegistryFlag.result.str \in BoolSpellingsFalse

\* the value went to the registry and no file was written
ToRegistry == WroteRegistry /\ ~WroteFile /\ disk = last.pre.disk

\* the value went to the configuration file and not to the registry
ToFile ==
  /\ WroteFile /\ registry = last.pre.registry
  /\ MIKTEX_INI_BASE \in DOMAIN disk[ConfigRoot]
  /\ CfgHas(disk[ConfigRoot][MIKTEX_INI_BASE], last.sectionName, last.valueName)
  /\ CfgGet(disk[ConfigRoot][MIKTEX_INI_BASE], last.sectionName, last.valueName) = last.str

\* C20 as stated: the value goes to the registry whenever the user has not
\* opted out, the setup is not portable and a configuration file already
\* exists; it goes to the file only when the user opted out, the setup is
\* portable, or no configuration file exists yet.
C20_RegistryWhenFileExists ==
  (WasSet /\ host.isWindows) =>
    /\ (NotOptedOut /\ ~host.portable /\ HadConfigFile) => ToRegistry
    /\ WroteFile => (OptedOut \/ host.portable \/ ~HadConfigFile)

\* C20, amended: the value goes to the registry, and no file is written,
\* whenever no configuration file exists yet in the configuration root, the
\* setup is not portable and the no-registry flag resolves to false; it goes
\* to the configuration file, and the registry is not written, when the
\* configuration file already exists, the setup is portable, or the flag
\* resolves to true; when the flag is needed and its resolution fails the
\* call aborts and writes nothing.
C20_RegistryWhenNoFile ==
  (WasSet /\ host.isWindows) =>
    /\ (NotOptedOut /\ ~host.portable /\ ~HadConfigFile) => ToRegistry
    /\ (HadConfigFile \/ host.portable \/ OptedOut) => (ToFile /\ ~last.thrown)
    /\ (~HadConfigFile /\ ~host.portable /\ ~OptedOut /\ ~NotOptedOut) =>
         (last.thrown /\ registry = last.pre.registry /\ disk = last.pre.disk)

\* a fresh installation: no miktex.ini, not portable, the flag false by
\* default; the value is in the user's registry and there is still no file
C20_Witness ==
  /\ WasSet /\ host.isWindows /\ ~host.portable /\ ~last.thrown
  /\ last.pre.disk = NoFiles /\ disk = NoFiles
  /\ NotOptedOut
  /\ ~adminMode
  /\ CfgHas(registry.user, last.sectionName, last.valueName)
  /\ CfgGet(registry.user, last.sectionName, last.valueName) = last.str
  /\ registry # last.pre.registry

-----------------------------------------------------------------------------
(* Vocabulary of the command line properties                               *)

\* the last call was ExamineCommandLine and returned
WasExamined == last.op = "ExamineCommandLine" /\ ~last.thrown

\* the last call was ToSafeCommandLine
WasMadeSafe == last.op = "ToSafeCommandLine"

\* the first token of the command line of the last call: what is between
\* the leading whitespace and the next whitespace
FirstToken ==
  IF \A i \in DOMAIN last.str : last.str[i] \in {Space, Tab} THEN <<>>
  ELSE LET b == CHOOSE i \in DOMAIN last.str :
                  /\ last.str[i] \notin {Space, Tab}
                  /\ \A j \in 1..(i - 1) : last.str[j] \in {Space, Tab}
           e == CHOOSE i \in b..Len(last.str) :
                  /\ \A j \in b..i : last.str[j] \notin {Space, Tab}
                  /\ i = Len(last.str) \/ last.str[i + 1] \in {Space, Tab}
       IN  Slice(last.str, b, e)

\* what follows the first token
Arguments ==
  LET tokenEnd == CHOOSE e \in 0..Len(last.str) :
                    /\ e >= Len(FirstToken)
                    /\ Slice(last.str, e - Len(FirstToken) + 1, e) = FirstToken
                    /\ \A j \in 1..(e - Len(FirstToken)) : last.str[j] \in {Space, Tab}
  IN  Slice(last.str, tokenEnd + 1, Len(last.str))

\* the token has none of the characters double quote, single quote, space, tab
HasNoQuoteOrBlank(token) ==
  \A i \in DOMAIN token : token[i] \notin {DoubleQuote, SingleQuote, Space, Tab}

\* the token is one of the commands the configuration allows: f, foo
OnAllowList(token) ==
  \E cmd \in { CommandF, <<"f", "o", "o">> } : MakeLower(token) = MakeLower(cmd)

-----------------------------------------------------------------------------
-----------------------------------------------------------------------------
(* C16: malformed quoting and the classification SyntaxError               *)

\* the quoting of the arguments is malformed: a single quote, a double-quoted
\* span that is not closed, or a closing double quote that is followed by a
\* character other than whitespace
RECURSIVE MalformedFrom(_, _, _)
MalformedFrom(args, i, quoted) ==
  IF i > Len(args) THEN quoted
  ELSE IF args[i] = SingleQuote THEN TRUE
  ELSE IF args[i] = DoubleQuote /\ quoted
  THEN IF i < Len(args) /\ args[i + 1] \notin {Space, Tab} THEN TRUE
       ELSE MalformedFrom(args, i + 1, FALSE)
  ELSE IF args[i] = DoubleQuote THEN MalformedFrom(args, i + 1, TRUE)
  ELSE MalformedFrom(args, i + 1, quoted)

Malformed == MalformedFrom(Arguments, 1, FALSE)

\* C16 as stated: malformed quoting among the arguments is reported as the
\* classification SyntaxError, as a return value and never as an exception,
\* for every command line, whether or not its program is on the allow-list.
C16_MalformedIsSyntaxError ==
  (last.op = "ExamineCommandLine" /\ Malformed) =>
    (~last.thrown /\ last.result.classification = "SyntaxError")

\* C16, amended: for a command line whose program is a token without quotes
\* that is on the allow-list, malformed quoting among the arguments is
\* reported as the classification SyntaxError, with an empty program path
\* and an empty sanitized line, and well-formed quoting is not; for a
\* command line whose program is not on the allow-list the quoting is not
\* examined and the classification is MaybeSafe; no exception is raised in
\* either case.
C16_MalformedIsSyntaxErrorIfAllowed ==
  (last.op = "ExamineCommandLine" /\ FirstToken # <<>>) =>
    /\ ~last.thrown
    /\ (HasNoQuoteOrBlank(FirstToken) /\ OnAllowList(FirstToken)) =>
         /\ Malformed <=> last.result.classification = "SyntaxError"
         /\ Malformed =>
              last.result.programPath = <<>> /\ last.result.safeCommandLine = <<>>
    /\ ~(HasNoQuoteOrBlank(FirstToken) /\ OnAllowList(FirstToken)) =>
         last.result.classification = "MaybeSafe"

\* the allowed command f with a closing mark followed by a character
C16_Witness ==
  /\ WasExamined
  /\ last.str = <<"f", Space, DoubleQuote, "x", DoubleQuote, "x">>
  /\ Malformed
  /\ last.result.classification = "SyntaxError"

-----------------------------------------------------------------------------
(* C17: ToSafeCommandLine returns the empty string for every input that    *)
(* contains a single quote anywhere, the first whitespace-delimited token  *)
(* included.                                                               *)
C17_SingleQuoteIsFailure ==
  (WasMadeSafe /\ SingleQuote \in Range(last.str)) => last.result.str = <<>>

-----------------------------------------------------------------------------
(* C18: what an accepted line looks like                                   *)

\* the line ToSafeCommandLine returned
SafeLine == last.result.str

\* the call accepted the command line
Accepted == WasMadeSafe /\ SafeLine # <<>>

\* text is a sequence of spans in matching pairs of the platform's quote
\* character, with nothing but whitespace outside the pairs, except for an
\* '=' that stands between a closing and an opening quote on the
\* double-quote platform
RECURSIVE WrappedFrom(_, _, _)
WrappedFrom(text, i, open) ==
  IF i > Len(text) THEN ~open
  ELSE IF text[i] = quoteChar THEN WrappedFrom(text, i + 1, ~open)
  ELSE IF open \/ text[i] \in {Space, Tab} THEN WrappedFrom(text, i + 1, open)
  ELSE /\ host.isWindows /\ text[i] = "="
       /\ i > 1 /\ text[i - 1] = quoteChar
       /\ i < Len(text) /\ text[i + 1] = quoteChar
       /\ WrappedFrom(text, i + 1, open)

Wrapped(text) == WrappedFrom(text, 1, FALSE)

\* text without the character ch
Without(text, ch) == SelectSeq(text, LAMBDA c : c # ch)

\* what the accepted line has after the program token
SafeArguments == Slice(SafeLine, Len(FirstToken) + 1, Len(SafeLine))

\* foo "--opt"="a b"
FooOptSafe ==
  <<"f", "o", "o", Space, DoubleQuote, "-", "-", "o", "p", "t", DoubleQuote, "=",
    DoubleQuote, "a", Space, "b", DoubleQuote>>

\* C18 as stated: in every accepted line the program token and each argument
\* appear wrapped in matching quote pairs.
C18_ProgramAndArgumentsWrapped ==
  Accepted => Wrapped(SafeLine)

\* C18, amended: in every accepted line the program token stands first, as
\* it was given and without quote characters around it, and each argument
\* after it appears wrapped in a matching pair of quote characters, the
\* text of the arguments being otherwise unchanged; on the double-quote
\* platform foo --opt="a b" becomes foo "--opt"="a b".
C18_ArgumentsWrapped ==
  Accepted =>
    /\ Len(SafeLine) >= Len(FirstToken)
    /\ Slice(SafeLine, 1, Len(FirstToken)) = FirstToken
    /\ Wrapped(SafeArguments)
    /\ Without(SafeArguments, quoteChar) = Without(Arguments, DoubleQuote)
    /\ (host.isWindows /\ last.str = FooOpt) => SafeLine = FooOptSafe

\* foo --opt="a b" on the double-quote platform
C18_Witness ==
  /\ Accepted /\ host.isWindows
  /\ last.str = FooOpt
  /\ SafeLine = FooOptSafe

-----------------------------------------------------------------------------
(* C21: the verification after a registry write                            *)

\* the last call was a SetConfigValue that wrote the registry
AfterRegistryWrite == WasSet /\ WroteRegistry /\ ~WroteFile

\* the value the session resolves for the key once the registry is written
ReResolved ==
  GetSessionValue(last.sectionName, last.valueName, NoCallback,
                  Ctx(last.pre.cs, last.pre.vbe, registry, <<>>))

\* C21 as stated: after a registry write SetConfigValue returns normally
\* only if the re-resolved value equals the intended value, and aborts in
\* every other case: a different value, or no value resolved at all.
C21_ReturnsOnlyIfEqual ==
  AfterRegistryWrite =>
    (~last.thrown <=>
       (~ReResolved.thrown /\ ReResolved.have /\ ReResolved.value = last.str))

\* what lines 478-484 do: the call aborts exactly when the re-resolution
\* yields a different value (or itself aborts); it returns when the value is
\* equal and also when no value is resolved.
C21_AbortsOnlyIfDifferent ==
  AfterRegistryWrite =>
    (~last.thrown <=>
       (~ReResolved.thrown /\ (~ReResolved.have \/ ReResolved.value = last.str)))

\* the value was written under the empty section, where no resolution
\* looks: nothing is resolved and the call returns
C21_NothingResolved ==
  /\ AfterRegistryWrite /\ ~last.thrown
  /\ last.sectionName = MIKTEX_CONFIG_SECTION_NONE
  /\ ~ReResolved.thrown /\ ~ReResolved.have

-----------------------------------------------------------------------------
(* C22: what a SetConfigValue that aborts leaves behind                     *)

SetAborted == WasSet /\ last.thrown

\* C22 as stated: when SetConfigValue aborts with a fatal error, the
\* registry, the configuration file and the layer cache hold exactly what
\* they held before the call.
C22_NoPartialCommit ==
  SetAborted =>
    /\ registry = last.pre.registry
    /\ disk = last.pre.disk
    /\ configurationSettings = last.pre.cs

\* what the code keeps: a call that aborts has not written the file
C22_FileKeptOnAbort == SetAborted => disk = last.pre.disk

\* the verification failed after line 476 wrote the registry
C22_RegistryWrittenThenAborted ==
  SetAborted /\ AfterRegistryWrite /\ registry # last.pre.registry

-----------------------------------------------------------------------------
(* C23: a partially populated layer                                         *)

\* the layer cached under key holds every value of every candidate file
\* that is to be merged and can be read
LayerComplete(key) ==
  \A r \in DOMAIN disk :
    (key \in DOMAIN disk[r] /\ ~SkipConfigFile(r) /\ ~Unreadable(r, key)) =>
      \A k \in DOMAIN disk[r][key] : k \in DOMAIN configurationSettings[key]

\* C23: a partially populated layer is never observable: if building the
\* layer aborts part-way because a configuration file read fails fatally, no
\* later lookup is answered from a cache entry that lacks some of the
\* candidate files that should have been merged.
C23_NoPartialLayerObserved ==
  IsLookup => \A key \in ConsultedKeys : LayerComplete(key)

\* a lookup answered with nothing from the entry that an aborted build left
\* behind, although tex.ini of the user's root defines the value
C23_PartialLayerObserved ==
  /\ last.op = "GetConfigValue" /\ ~last.thrown
  /\ last.prev.op = "GetConfigValue" /\ last.prev.thrown
  /\ last.valueName = NameA /\ last.result = NoneValue
  /\ Tex \in ConsultedKeys /\ Len(ReadKeys) = 0
  /\ CfgHas(disk[1][Tex], SectionS, NameA) /\ ~Unreadable(1, Tex)

-----------------------------------------------------------------------------
(* C24: malformed placeholders                                             *)

WasExpanded == last.op = "Expand"

\* s[i..] is ${ with no } after it
UnterminatedAt(s, i) ==
  /\ At(s, i) = "$" /\ At(s, i + 1) = "{"
  /\ \A j \in (i + 2)..Len(s) : s[j] # "}"

\* s[i..] is the empty placeholder ${}
EmptyAt(s, i) == At(s, i) = "$" /\ At(s, i + 1) = "{" /\ At(s, i + 2) = "}"

\* the number of dollar signs that stand right before s[i]
RECURSIVE DollarsBefore(_, _)
DollarsBefore(s, i) ==
  IF At(s, i - 1) = "$" THEN 1 + DollarsBefore(s, i - 1) ELSE 0

\* the dollar sign s[i] is the second one of an escape $$
EscapedAt(s, i) == DollarsBefore(s, i) % 2 = 1

\* s[i] lies in the name of a placeholder ${...} that starts before it and
\* whose name, the text up to the first }, has a value
InResolvedName(s, i) ==
  \E b \in 1..(i - 1) :
    /\ s[b] = "$" /\ At(s, b + 1) = "{" /\ ~EscapedAt(s, b)
    /\ EndOfBraced(s, b + 2) \in (i + 1)..Len(s)
    /\ LookupValue(Slice(s, b + 2, EndOfBraced(s, b + 2) - 1),
                   last.callback, PreCtx).have

\* C24 as stated: Expand fails, and returns nothing, for every input that
\* contains ${ with no later } and for every input that contains the empty
\* placeholder ${}, unless that text is preceded by a $ that escapes it.
C24_MalformedAborts ==
  WasExpanded =>
    \A i \in DOMAIN last.str :
      ((UnterminatedAt(last.str, i) \/ EmptyAt(last.str, i))
         /\ ~EscapedAt(last.str, i)) => last.thrown

\* C24, amended: Expand fails, and returns nothing, for every input that
\* contains ${ with no later } and for every input that contains the empty
\* placeholder ${}, unless that text is preceded by a $ that escapes it or,
\* for the empty placeholder, lies in the name of a placeholder ${...} that
\* starts before it and has a value: a name is the text up to the first }
\* and may itself contain ${.
C24_MalformedAbortsUnlessInName ==
  WasExpanded =>
    \A i \in DOMAIN last.str :
      /\ (UnterminatedAt(last.str, i) /\ ~EscapedAt(last.str, i)) => last.thrown
      /\ (EmptyAt(last.str, i) /\ ~EscapedAt(last.str, i)
            /\ ~InResolvedName(last.str, i)) => last.thrown
      /\ last.thrown => last.result = NoneValue

\* ${} after plain text: the call aborts
C24_Witness ==
  /\ WasExpanded /\ last.thrown /\ last.result = NoneValue
  /\ last.str = <<"A", "$", "{", "}">>

-----------------------------------------------------------------------------
(* C25: the passes of Expand                                               *)

\* brace-expansion, if the options of the call ask for it
BracesIfAsked(s) ==
  IF "Braces" \in input.options THEN MakeSearchPath(ExpandBraces(s)) ELSE s

\* path-pattern-expansion, if the options of the call ask for it
PathPatternsIfAsked(s) ==
  IF "PathPatterns" \in input.options THEN MakeSearchPath(ExpandPathPatterns(s))
  ELSE s

\* value-expansion of s as the last call found the session
ValuesOf(s) == ExpandValues(s, last.callback, PreCtx)

\* C25: Expand with an options set applies the passes in the fixed order
\* brace-expansion, value-expansion, brace-expansion, path-pattern-expansion,
\* each pass taking the previous pass's output; a pass whose option is
\* absent is skipped; the one- and two-argument overloads run
\* value-expansion only (the one-argument overload with the default
\* callback).
C25_PassesInOrder ==
  /\ (last.op = "ExpandOptions" /\ "Values" \in input.options) =>
        /\ last.thrown = ValuesOf(BracesIfAsked(last.str)).thrown
        /\ ~last.thrown =>
             last.result =
               StringValue(PathPatternsIfAsked(BracesIfAsked(
                 ValuesOf(BracesIfAsked(last.str)).value)))
  /\ (last.op = "ExpandOptions" /\ "Values" \notin input.options) =>
        /\ ~last.thrown
        /\ last.result =
             StringValue(PathPatternsIfAsked(BracesIfAsked(BracesIfAsked(last.str))))
  /\ last.op = "Expand" =>
        /\ last.thrown = ValuesOf(last.str).thrown
        /\ ~last.thrown => last.result = StringValue(ValuesOf(last.str).value)
        /\ input.op = "ExpandDefault" => last.callback = DefaultCallback

\* all passes asked for: the first makes $A and b of {$A,b}, the second puts
\* the value p,q in, the third finds no group left
C25_Witness ==
  /\ last.op = "ExpandOptions"
  /\ input.options = {"Braces", "Values", "PathPatterns"}
  /\ last.str = <<"{", "$", "A", ",", "b", "}">>
  /\ EnvHas(env, NameA) /\ env[NameA] = <<"p", ",", "q">>
  /\ last.result = StringValue(<<"p", ",", "q", ";", "b">>)

\* brace-expansion before path-pattern-expansion: each alternative gets the
\* roots
C25_BracesThenPathPatterns ==
  /\ last.op = "ExpandOptions"
  /\ input.options = {"Braces", "PathPatterns"}
  /\ last.str = <<"%", "R", "{", "a", ",", "b", "}">>
  /\ last.result =
       StringValue(<<"/","u","a", ";", "/","c","a", ";", "/","u","b", ";", "/","c","b">>)

-----------------------------------------------------------------------------
(* C26: the engine name                                                    *)

\* C26: a value name that case-insensitively equals the engine-name macro
\* always resolves to the computed engine name, whatever environment
\* variables, registry entries, configuration layers or factory defaults
\* define; no other source is consulted for it, and no layer is built.
C26_EngineIsComputed ==
  (Resolved /\ EqualsIgnoreCase(last.valueName, CFG_MACRO_NAME_ENGINE)) =>
    /\ ~last.thrown
    /\ last.result = StringValue(host.engineName)
    /\ last.log = << <<"special", CFG_MACRO_NAME_ENGINE>> >>
    /\ configurationSettings = last.pre.cs

\* every environment variable is set, both files and the registry have the
\* value, and the engine name is what the call returns
C26_Witness ==
  /\ Resolved /\ last.valueName = EngineAsWritten /\ last.sectionName = SectionS
  /\ last.valueName # CFG_MACRO_NAME_ENGINE
  /\ env = FromPairs(EnvPool(last.sectionName, last.valueName))
  /\ Tex \in DOMAIN disk[1] /\ Miktex \in DOMAIN disk[1]
  /\ host.isWindows /\ registry = RegistryWith(input)
  /\ last.result = StringValue(host.engineName)

-----------------------------------------------------------------------------
(* C27: the application tags one after the other                           *)

\* the places of an entry in the trace of the last call
PlacesOf(entry) == { i \in DOMAIN last.log : last.log[i] = entry }

\* where the environment variable, the registry and the layer of application
\* tag idx were asked
EnvPlaces(idx) == PlacesOf(<<"env", TagEnvVarName(idx)>>)

RegistryPlaces(idx) == PlacesOf(<<"registry", TagSection(idx), last.valueName>>)

LayerPlaces(idx) ==
  PlacesOf(<<"cfg", MakeLower(applicationNames[idx]), TagSection(idx), last.valueName>>)

\* the value the files of application tag idx hold
TagLayerValue(idx) ==
  CfgGet(ReadAllConfigFiles(MakeLower(applicationNames[idx]), EmptyCfg),
         TagSection(idx), last.valueName)

\* C27: alias-major ordering.  For the alias list [A1, A2, ...] the sources
\* of an earlier alias (environment variable, then registry, then
\* configuration layer) are all consulted before any source of a later
\* alias, so a value in A1's layer is returned even when A2's environment
\* variable is set; with an empty section each alias uses its own name as
\* the effective section.
C27_AliasMajor ==
  (Resolved /\ ~IsFirstBattery(last.valueName)) =>
    /\ \A idx \in DOMAIN applicationNames :
         /\ \A e \in EnvPlaces(idx), c \in LayerPlaces(idx) : e < c
         /\ \A e \in EnvPlaces(idx), r \in RegistryPlaces(idx), c \in LayerPlaces(idx) :
              (e < r /\ r < c) \/ r > c
         /\ LayerPlaces(idx) # {} => EnvPlaces(idx) # {}
         /\ \A j \in DOMAIN applicationNames :
              (idx < j /\ EnvPlaces(j) # {}) =>
                /\ LayerPlaces(idx) # {}
                /\ \A c \in LayerPlaces(idx), e \in EnvPlaces(j) : c < e
                /\ ~TagHas(idx)
    /\ ( /\ TagLayerHas(1)
         /\ ~EnvHas(env, TagEnvVarName(1))
         /\ ~TagRegistryHas(1) )
       => ReturnedExpansionOf(TagLayerValue(1))
    /\ last.sectionName = MIKTEX_CONFIG_SECTION_NONE =>
         \A idx \in DOMAIN applicationNames : TagSection(idx) = applicationNames[idx]

\* tex.ini has the value under section tex, the environment variable of
\* miktex is set, and the call, made with the empty section, returns the
\* value of the file
C27_Witness ==
  /\ Resolved /\ last.valueName = NameA
  /\ last.sectionName = MIKTEX_CONFIG_SECTION_NONE
  /\ applicationNames = <<Tex, Miktex>>
  /\ TagLayerHas(1) /\ ~EnvHas(env, TagEnvVarName(1))
  /\ EnvHas(env, TagEnvVarName(2))
  /\ TagEnvVarName(2) = AppEnvVarName(Miktex, Miktex, NameA)
  /\ last.result = StringValue(TagLayerValue(1))
  /\ EnvPlaces(2) = {}

-----------------------------------------------------------------------------
(* C28: the order in which the candidate files are merged                  *)

\* the roots whose <key>.ini is merged into the layer of key and defines k,
\* in the order of the file search
DefiningRoots(key, k) ==
  { r \in DOMAIN disk :
      key \in DOMAIN disk[r] /\ ~SkipConfigFile(r) /\ k \in DOMAIN disk[r][key] }

FoundFirst(roots) == CHOOSE r \in roots : \A q \in roots : r <= q

FoundLast(roots) == CHOOSE r \in roots : \A q \in roots : r >= q

\* C28 as stated: the first-found candidate file is read first and the
\* later-found files after it, so that for a key defined in several
\* candidate files the layer ends up with the value from the file found
\* last by the file search.
C28_LastFoundWins ==
  \A key \in AppKeys(configurationSettings) :
    \A k \in DOMAIN configurationSettings[key] :
      configurationSettings[key][k] = disk[FoundLast(DefiningRoots(key, k))][key][k]

\* C28, amended: the last-found candidate file is read first and the
\* earlier-found files after it, so that for a key defined in several
\* candidate files the layer ends up with the value from the file found
\* first by the file search (the file read last wins).
C28_FirstFoundWins ==
  \A key \in AppKeys(configurationSettings) :
    /\ \A k \in DOMAIN configurationSettings[key] :
         /\ DefiningRoots(key, k) # {}
         /\ configurationSettings[key][k] =
              disk[FoundFirst(DefiningRoots(key, k))][key][k]
    /\ \A r \in DOMAIN disk :
         (key \in DOMAIN disk[r] /\ ~SkipConfigFile(r)) =>
           DOMAIN disk[r][key] \subseteq DOMAIN configurationSettings[key]

\* tex.ini of the user's root, found first, and tex.ini of the common root
\* both define [S]A: the layer has the value of the user's root
C28_Witness ==
  /\ ~adminMode /\ Tex \in AppKeys(configurationSettings)
  /\ DefiningRoots(Tex, CfgKey(SectionS, NameA)) = {1, 2}
  /\ disk[1][Tex][CfgKey(SectionS, NameA)] # disk[2][Tex][CfgKey(SectionS, NameA)]
  /\ CfgGet(configurationSettings[Tex], SectionS, NameA) =
       disk[1][Tex][CfgKey(SectionS, NameA)]
  /\ last.op = "GetConfigValue" /\ last.valueName = NameA
  /\ last.result = StringValue(disk[1][Tex][CfgKey(SectionS, NameA)])

-----------------------------------------------------------------------------
(* C29: the candidate files that are read                                  *)

\* the roots that hold a candidate file <key>.ini
Candidates(key) == { r \in DOMAIN disk : key \in DOMAIN disk[r] }

\* the candidates of a managed root, and those with no derivable root
ToBeRead(key) ==
  { r \in Candidates(key) : IsManagedRoot(r) \/ ~RootDerivable(r) }

\* C29: a candidate file whose owning root can be derived and is not a
\* managed root is never read into the layer; every other candidate (managed
\* root, or no derivable root) is read.  If the file search finds no
\* candidate, the layer is cached empty.
C29_UnmanagedSkipped ==
  \A key \in AppKeys(configurationSettings) :
    /\ DOMAIN configurationSettings[key] =
         UNION { DOMAIN disk[r][key] : r \in ToBeRead(key) }
    /\ \A k \in DOMAIN configurationSettings[key] :
         \E r \in ToBeRead(key) :
           k \in DOMAIN disk[r][key] /\ configurationSettings[key][k] = disk[r][key][k]
    /\ Candidates(key) = {} => configurationSettings[key] = EmptyCfg

\* in administrator mode tex.ini of the user's root is skipped, tex.ini of
\* the common root is read, and so is the tex.ini found in a directory with
\* no derivable root; miktex.ini does not exist and its layer is empty
C29_Witness ==
  /\ adminMode /\ ~host.roots[3].derivable
  /\ Candidates(Tex) = {1, 2, 3} /\ ToBeRead(Tex) = {2, 3}
  /\ Tex \in AppKeys(configurationSettings)
  /\ CfgGet(configurationSettings[Tex], SectionS, NameA) = <<"c">>
  /\ CfgGet(configurationSettings[Tex], Tex, NameB) = <<"x", "b">>
  /\ Miktex \in AppKeys(configurationSettings) /\ Candidates(Miktex) = {}
  /\ configurationSettings[Miktex] = EmptyCfg

-----------------------------------------------------------------------------
(* C30: the callback and the configuration                                 *)

\* the last call expanded a string that is one reference and nothing else
ExpandedOneRef ==
  last.op = "Expand" /\ (IsBracedRef(last.str) \/ IsPlainRef(last.str))

\* the override lookup of the last call is there and knows valueName
OverrideKnows(valueName) ==
  last.callback.present /\ valueName \in DOMAIN last.callback.values

\* the first source the configuration asks with the empty section: the
\* environment variable of the first application tag, the tag being the
\* section
FirstOfChain(valueName) ==
  <<"env", AppEnvVarName(applicationNames[1], applicationNames[1], valueName)>>

\* C30: for a matched placeholder NAME the caller-supplied override lookup
\* is consulted first and its value is used whenever it reports success,
\* even when an environment variable or configuration entry also defines
\* NAME; the configuration chain, scoped to the empty section (so that the
\* bare environment variable NAME is eligible), is consulted only when the
\* override lookup is absent or fails.
C30_OverrideFirst ==
  ExpandedOneRef =>
    IF OverrideKnows(RefName(last.str))
    THEN /\ ~last.thrown
         /\ last.result = StringValue(last.callback.values[RefName(last.str)])
         /\ last.log = << <<"callback", RefName(last.str)>> >>
    ELSE /\ last.callback.present =>
              /\ last.log[1] = <<"callback", RefName(last.str)>>
              /\ last.log[2] = <<"read", MakeLower(applicationNames[1])>>
              /\ last.log[3] = FirstOfChain(RefName(last.str))
         /\ ~last.callback.present =>
              /\ last.log[1] = <<"read", MakeLower(applicationNames[1])>>
              /\ last.log[2] = FirstOfChain(RefName(last.str))
         /\ EnvHas(env, RefName(last.str)) =>
              /\ <<"env", RefName(last.str)>> \in Range(last.log)
              /\ last.thrown = ConfiguredExpanded(RefName(last.str)).thrown
              /\ last.result = ConfiguredExpanded(RefName(last.str)).result

\* the callback and the environment both have A: the callback's value is
\* the result and the environment was not asked
C30_Witness ==
  /\ ExpandedOneRef /\ RefName(last.str) = NameA
  /\ OverrideKnows(NameA) /\ EnvHas(env, NameA)
  /\ last.result = StringValue(last.callback.values[NameA])
  /\ last.callback.values[NameA] # env[NameA]
  /\ <<"env", NameA>> \notin Range(last.log)

\* the default callback has no value for A: the bare environment variable A
\* gives the value
C30_ChainAfterCallback ==
  /\ ExpandedOneRef /\ RefName(last.str) = NameA
  /\ last.callback = DefaultCallback /\ EnvHas(env, NameA)
  /\ env[NameA] = <<"p", ",", "q">>
  /\ last.result = StringValue(env[NameA])

-----------------------------------------------------------------------------
(* C31: the double-quoted spans among the arguments                        *)

\* the positions of the character ch in text, in order
RECURSIVE PositionsFrom(_, _, _)
PositionsFrom(text, ch, i) ==
  IF i > Len(text) THEN <<>>
  ELSE IF text[i] = ch THEN <<i>> \o PositionsFrom(text, ch, i + 1)
  ELSE PositionsFrom(text, ch, i + 1)

\* the spans of text between the 1st and the 2nd ch, the 3rd and the 4th, ...
SpansOf(text, ch) ==
  LET P == PositionsFrom(text, ch, 1)
  IN  [k \in 1..(Len(P) \div 2) |-> Slice(text, P[2 * k - 1] + 1, P[2 * k] - 1)]

\* the span that the k-th double quote of args opens (k odd) has a closing
\* double quote before any single quote and before the end, and what
\* follows the closing quote is whitespace or the end
SpanWellFormed(args, k) ==
  LET P == PositionsFrom(args, DoubleQuote, 1)
  IN  /\ k + 1 <= Len(P)
      /\ \A j \in (P[k] + 1)..(P[k + 1] - 1) : args[j] # SingleQuote
      /\ P[k + 1] = Len(args) \/ args[P[k + 1] + 1] \in {Space, Tab}

\* small is a subsequence of big
RECURSIVE IsSubsequence(_, _)
IsSubsequence(small, big) ==
  IF small = <<>> THEN TRUE
  ELSE IF big = <<>> THEN FALSE
  ELSE IF Head(small) = Head(big) THEN IsSubsequence(Tail(small), Tail(big))
  ELSE IsSubsequence(small, Tail(big))

\* C31: ToSafeCommandLine returns the empty string whenever a double-quoted
\* span among the arguments has no closing double quote before a single
\* quote or the end of the line, or has a closing quote that is followed by
\* a character other than whitespace; in an accepted line the text of every
\* double-quoted span stands unchanged, in the order given, between a pair
\* of the platform's quote characters.
C31_QuotedSpans ==
  WasMadeSafe =>
    /\ (\E k \in 1..Len(PositionsFrom(Arguments, DoubleQuote, 1)) :
          k % 2 = 1 /\ ~SpanWellFormed(Arguments, k)) => SafeLine = <<>>
    /\ Accepted =>
         /\ \A k \in 1..Len(PositionsFrom(Arguments, DoubleQuote, 1)) :
              k % 2 = 1 => SpanWellFormed(Arguments, k)
         /\ IsSubsequence(SpansOf(Arguments, DoubleQuote),
                          SpansOf(SafeArguments, quoteChar))

\* foo --opt="a b" on the single-quote platform: foo '--opt=''a b'
C31_Witness ==
  /\ Accepted /\ ~host.isWindows
  /\ last.str = FooOpt
  /\ SpansOf(Arguments, DoubleQuote) = << <<"a", Space, "b">> >>
  /\ SafeLine = <<"f", "o", "o", Space, SingleQuote, "-", "-", "o", "p", "t", "=",
                  SingleQuote, SingleQuote, "a", Space, "b", SingleQuote>>

-----------------------------------------------------------------------------
(* C32: the balance of the quote characters of an accepted line            *)

\* how many of the platform's quote characters text has before position i
QuotesBefore(text, i) == Len(PositionsFrom(Slice(text, 1, i - 1), quoteChar, 1))

\* position i of text is outside every pair of quote characters
OutsideQuotes(text, i) == QuotesBefore(text, i) % 2 = 0

HasWhitespace(text) == \E i \in DOMAIN text : text[i] \in {Space, Tab}

\* x="x x"  after the command f
KeyAndQuoted == <<"f", Space, "x", "=", DoubleQuote, "x", Space, "x", DoubleQuote>>

\* C32: in every line ToSafeCommandLine accepts, what is emitted after the
\* first token has an even number of the platform's quote characters; every
\* argument (what begins after whitespace, outside a pair of quotes) begins
\* with a quote character, the line does not end inside a pair, and a pair
\* of quote characters has whitespace between them only if its text is one
\* of the spans the user put in double quotes.
C32_QuoteBalance ==
  Accepted =>
    /\ Len(PositionsFrom(SafeArguments, quoteChar, 1)) % 2 = 0
    /\ \A i \in DOMAIN SafeArguments :
         ( /\ OutsideQuotes(SafeArguments, i)
           /\ SafeArguments[i] \notin {Space, Tab}
           /\ i = 1 \/ SafeArguments[i - 1] \in {Space, Tab} )
         => SafeArguments[i] = quoteChar
    /\ \A k \in DOMAIN SpansOf(SafeArguments, quoteChar) :
         HasWhitespace(SpansOf(SafeArguments, quoteChar)[k]) =>
           \E j \in DOMAIN SpansOf(Arguments, DoubleQuote) :
             SpansOf(Arguments, DoubleQuote)[j] = SpansOf(SafeArguments, quoteChar)[k]

\* f x="x x" on the single-quote platform: f 'x=''x x', four quote characters
C32_Witness ==
  /\ Accepted /\ ~host.isWindows
  /\ last.str = KeyAndQuoted
  /\ SafeLine = <<"f", Space, SingleQuote, "x", "=", SingleQuote, SingleQuote,
                  "x", Space, "x", SingleQuote>>
  /\ Len(PositionsFrom(SafeArguments, quoteChar, 1)) = 4

-----------------------------------------------------------------------------
(* C33: every call of Expand terminates                                    *)

\* the course of the scanner from its k-th entry on, with a stack that holds,
\* for every call of ExpandValues in progress, the position of its latest
\* iteration and the length of its text: every iteration begins at a
\* position of the text that is beyond the position of the one before
RECURSIVE AdvancesFrom(_, _, _)
AdvancesFrom(scan, k, stack) ==
  IF k > Len(scan) THEN TRUE
  ELSE IF scan[k][1] = "enter"
  THEN AdvancesFrom(scan, k + 1, << <<0, scan[k][2]>> >> \o stack)
  ELSE IF scan[k][1] = "leave"
  THEN stack # <<>> /\ AdvancesFrom(scan, k + 1, Tail(stack))
  ELSE /\ stack # <<>>
       /\ scan[k][2] > Head(stack)[1]
       /\ scan[k][2] <= Head(stack)[2]
       /\ AdvancesFrom(scan, k + 1, << <<scan[k][2], Head(stack)[2]>> >> \o Tail(stack))

\* the greatest number of calls of ExpandValues that were in progress at once
RECURSIVE DeepestFrom(_, _, _, _)
DeepestFrom(scan, k, depth, deepest) ==
  IF k > Len(scan) THEN deepest
  ELSE IF scan[k][1] = "enter"
  THEN DeepestFrom(scan, k + 1, depth + 1,
                   IF depth + 1 > deepest THEN depth + 1 ELSE deepest)
  ELSE IF scan[k][1] = "leave" THEN DeepestFrom(scan, k + 1, depth - 1, deepest)
  ELSE DeepestFrom(scan, k + 1, depth, deepest)

Deepest == DeepestFrom(last.scan, 1, 0, 0)

\* the calls of ExpandValues that began and the calls that returned
Entered == Len(SelectSeq(last.scan, LAMBDA e : e[1] = "enter"))

Left == Len(SelectSeq(last.scan, LAMBDA e : e[1] = "leave"))

\* the name that the reference at text[i] refers to
ReferredAt(text, i) ==
  IF At(text, i + 1) = "{"
  THEN Slice(text, i + 2, EndOfBraced(text, i + 2) - 1)
  ELSE Slice(text, i + 1, EndOfName(text, i + 1) - 1)

\* the names that text refers to
NamesIn(text) ==
  { ReferredAt(text, i) :
      i \in { j \in DOMAIN text : text[j] = "$" /\ StartsName(text, j) } }

\* the texts of the configuration: the values of the environment variables
\* and of the configuration files
ConfiguredTexts ==
  { env[n] : n \in DOMAIN env }
    \cup UNION { UNION { { disk[r][b][k] : k \in DOMAIN disk[r][b] } :
                          b \in DOMAIN disk[r] } : r \in DOMAIN disk }
    \cup { host.factoryIni[k] : k \in DOMAIN host.factoryIni }

\* the distinct value names: the names that the text of the call and the
\* texts of the configuration refer to
ValueNames == UNION { NamesIn(text) : text \in {last.str} \cup ConfiguredTexts }

\* nothing has a value: no reference of the call is resolved
NothingSet ==
  /\ DOMAIN env = {} /\ ~last.callback.present
  /\ \A r \in DOMAIN disk : DOMAIN disk[r] = {}

\* C33: every call of Expand ends, with a string or with a fatal error; in
\* every call of ExpandValues it makes, each iteration of the scan begins at
\* a position of the text beyond the position of the iteration before, also
\* after the rewind for a reference that has no value; the calls of
\* ExpandValues in progress at once are never more than the distinct names
\* that the text of the call and the texts of the configuration refer to,
\* plus one; a call that returns a string has left every call of
\* ExpandValues it entered; where nothing has a value, the scan goes on at
\* the character after the dollar sign of every reference (and behind the
\* second dollar sign of an escape).
C33_ExpandTerminates ==
  WasExpanded =>
    /\ last.thrown \/ last.result.type = "String"
    /\ Entered >= 1 /\ last.scan[1] = <<"enter", Len(last.str)>>
    /\ AdvancesFrom(last.scan, 1, <<>>)
    /\ Deepest <= Cardinality(ValueNames) + 1
    /\ ~last.thrown => Left = Entered
    /\ last.thrown => Left < Entered
    /\ NothingSet =>
         \A k \in 2..(Len(last.scan) - 1) :
           last.scan[k + 1][1] = "at" =>
             last.scan[k + 1][2] =
               last.scan[k][2]
                 + (IF /\ last.str[last.scan[k][2]] = "$"
                       /\ At(last.str, last.scan[k][2] + 1) = "$"
                    THEN 2 ELSE 1)

\* $B where B is ${A}y and A is x$$: three calls of ExpandValues in progress
\* at once, with the two names A and B
C33_Witness ==
  /\ WasExpanded /\ ~last.thrown
  /\ last.str = <<"$", "B">>
  /\ ~last.callback.present
  /\ ValueNames = {NameA, NameB}
  /\ Deepest = 3
  /\ last.result.str = <<"x", "$", "y">>

\* $AA$ where nothing is set: the scan goes on after the rewind
C33_Rewound ==
  /\ WasExpanded /\ ~last.thrown
  /\ last.str = <<"$", "A", "A", "$">>
  /\ NothingSet
  /\ last.scan = << <<"enter", 4>>, <<"at", 1>>, <<"at", 2>>, <<"at", 3>>,
                   <<"at", 4>>, <<"leave">> >>

-----------------------------------------------------------------------------
(* C34: what SetConfigValue changes in the configuration files             *)

\* the configuration file of the call as the call found it, and as it left it
TargetBefore ==
  IF HadConfigFile THEN last.pre.disk[ConfigRoot][MIKTEX_INI_BASE] ELSE EmptyCfg

TargetAfter == disk[ConfigRoot][MIKTEX_INI_BASE]

\* the entry the call sets
TargetKey == CfgKey(last.sectionName, last.valueName)

\* C34: a SetConfigValue call that writes the configuration file leaves in
\* it every entry the file had under another (section, name), with the
\* same value, adds no entry but the one it sets, gives that entry the
\* value v, and changes no other file.
C34_OnlyTheEntryChanges ==
  (WasSet /\ WroteFile) =>
    /\ MIKTEX_INI_BASE \in DOMAIN disk[ConfigRoot]
    /\ DOMAIN TargetAfter = DOMAIN TargetBefore \cup {TargetKey}
    /\ \A k \in DOMAIN TargetBefore \ {TargetKey} : TargetAfter[k] = TargetBefore[k]
    /\ TargetAfter[TargetKey] = last.str
    /\ \A r \in DOMAIN disk :
         /\ DOMAIN disk[r] \ {MIKTEX_INI_BASE} = DOMAIN last.pre.disk[r] \ {MIKTEX_INI_BASE}
         /\ \A b \in DOMAIN last.pre.disk[r] :
              (r # ConfigRoot \/ b # MIKTEX_INI_BASE) => disk[r][b] = last.pre.disk[r][b]
         /\ r # ConfigRoot => DOMAIN disk[r] = DOMAIN last.pre.disk[r]

\* [S]A is set to v in a file that has [S]A = o and [S]B = m
C34_Witness ==
  /\ WasSet /\ WroteFile /\ ~last.thrown
  /\ last.sectionName = SectionS /\ last.valueName = NameA /\ last.str = <<"v">>
  /\ TargetBefore = FromPairs({ <<CfgKey(SectionS, NameB), <<"m">> >>,
                                <<CfgKey(SectionS, NameA), <<"o">> >> })
  /\ TargetAfter = FromPairs({ <<CfgKey(SectionS, NameB), <<"m">> >>,
                               <<CfgKey(SectionS, NameA), <<"v">> >> })

-----------------------------------------------------------------------------
(* C35: what SetAdminMode changes                                          *)

\* the step is a call of SetAdminMode
ModeCall == last'.op = "SetAdminMode" /\ calls' = calls + 1

\* the state of the session SetAdminMode works on
SessionState ==
  <<adminMode, initStartupConfig, fileTypes, filenameDatabase,
    configurationSettings, valuesBeingExpanded>>

\* C35: a call of SetAdminMode that asks for the mode in effect returns and
\* leaves the session, the registry and the files as they are; a call that
\* asks for administrator mode without force in a setup that is not shared
\* ends in a fatal error and leaves adminMode, isSharedSetup, the file types,
\* the loaded file name databases and the rest of the session as they are;
\* a call that changes anything in the session returns with the mode
\* switched to the one asked for.
C35_ModeFrame ==
  [][ModeCall =>
       /\ last'.default = BoolValue(adminMode) =>
            /\ ~last'.thrown
            /\ UNCHANGED SessionState
            /\ UNCHANGED <<registry, disk>>
       /\ ( /\ last'.default = BoolValue(TRUE) /\ ~adminMode
            /\ initStartupConfig.isSharedSetup # "True"
            /\ last'.str = StrFalse ) =>
            /\ last'.thrown
            /\ UNCHANGED SessionState
       /\ SessionState' # SessionState =>
            /\ ~last'.thrown
            /\ adminMode' # adminMode
            /\ BoolValue(adminMode') = last'.default]_vars

\* administrator mode was asked for without force in a private setup whose
\* session had a file type registered and file name databases loaded
C35_Witness ==
  /\ last.op = "SetAdminMode" /\ last.thrown
  /\ last.default = BoolValue(TRUE) /\ last.str = StrFalse
  /\ ~adminMode /\ initStartupConfig = PrivateSetup
  /\ fileTypes = {Tex} /\ filenameDatabase = {1, 2}

-----------------------------------------------------------------------------
(* C36: the shell command mode of the administrator                        *)

WasShellMode == last.op = "GetShellCommandMode"

\* what the session the call found has for [Core]ShellCommandMode and for
\* [Core]AllowUnrestrictedSuperUser
ConfiguredMode ==
  GetConfigValueIn(MIKTEX_CONFIG_SECTION_CORE, MIKTEX_CONFIG_VALUE_SHELLCOMMANDMODE,
                   NoneValue, NoCallback, PreCtx)

ConfiguredAllow ==
  GetConfigValueIn(MIKTEX_CONFIG_SECTION_CORE,
                   MIKTEX_CONFIG_VALUE_ALLOW_UNRESTRICTED_SUPER_USER,
                   NoneValue, NoCallback, PreCtx)

AllowIsTrue == ~ConfiguredAllow.thrown /\ ConfiguredAllow.result.str \in BoolSpellingsTrue

AllowIsFalse == ~ConfiguredAllow.thrown /\ ConfiguredAllow.result.str \in BoolSpellingsFalse

\* the call returned the mode
ReturnedMode(mode) == ~last.thrown /\ last.result = ShellCommandMode(mode)

\* C36: GetShellCommandMode returns Unrestricted to a process that runs as
\* administrator only if [Core]AllowUnrestrictedSuperUser is true; where the
\* mode is Unrestricted and that value is false the administrator gets
\* Restricted; a mode that is missing or is a text other than Forbidden,
\* Query, Restricted, Unrestricted ends the call in a fatal error, and every
\* call that returns returns the configured mode or, for the administrator,
\* Restricted in place of Unrestricted.
C36_AdministratorRestricted ==
  WasShellMode =>
    /\ (host.runningAsAdministrator /\ ReturnedMode(Unrestricted)) => AllowIsTrue
    /\ ( /\ host.runningAsAdministrator /\ AllowIsFalse
         /\ ~ConfiguredMode.thrown /\ ConfiguredMode.result.str = Unrestricted )
       => ReturnedMode(Restricted)
    /\ ( \/ ConfiguredMode.thrown
         \/ ConfiguredMode.result.type = "None"
         \/ ConfiguredMode.result.str \notin {Forbidden, Query, Restricted, Unrestricted} )
       => last.thrown
    /\ ~last.thrown =>
         \/ last.result = ShellCommandMode(ConfiguredMode.result.str)
         \/ /\ host.runningAsAdministrator
            /\ ConfiguredMode.result.str = Unrestricted
            /\ ReturnedMode(Restricted)

\* the administrator, the mode Unrestricted and the permission false
C36_Witness ==
  /\ WasShellMode /\ host.runningAsAdministrator
  /\ CfgHas(host.factoryIni, MIKTEX_CONFIG_SECTION_CORE,
            MIKTEX_CONFIG_VALUE_SHELLCOMMANDMODE)
  /\ CfgGet(host.factoryIni, MIKTEX_CONFIG_SECTION_CORE,
            MIKTEX_CONFIG_VALUE_SHELLCOMMANDMODE) = Unrestricted
  /\ AllowIsFalse
  /\ ReturnedMode(Restricted)

====
